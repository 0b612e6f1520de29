------------------------------- MODULE Reply -------------------------------
(***************************************************************************)
(* The reply a redis client gets for one request, from the request alone  *)
(* and the answers the backend gives: From<MessageMut> builds the Command  *)
(* and its subs (protocol/redis.rs), check_valid answers what is local,    *)
(* RedisNodeCodec::encode (send_req) writes what each backend executes,    *)
(* and RedisHandleCodec::encode writes Command::reply_cmd to the client.   *)
(*                                                                         *)
(* A RESP value is a record: its type t and, as the type needs, an         *)
(* integer n, a string v and the items of an array.  Keys, values and      *)
(* payloads are short strings; the framing bytes are left out.             *)
(***************************************************************************)
EXTENDS Naturals, Sequences, SequencesExt

CONSTANTS
    Verbs,      \* the command names a client sends
    Args,       \* the keys and values it sends with them
    MAX_ARGS,   \* bound on the arguments of one request
    Answers(_)  \* what a backend may answer to a request of a given verb

VARIABLES
    req,        \* the request: [verb, args]
    outs        \* the outcome of each request sent to a backend, in order

vars == <<req, outs>>

RESP(t, n, v, s) == [t |-> t, n |-> n, v |-> v, items |-> s]
Simple(v) == RESP("simple", 0, v, <<>>)
Error(v) == RESP("err", 0, v, <<>>)
IntReply(n) == RESP("int", n, "", <<>>)
Bulk(v) == RESP("bulk", 0, v, <<>>)
Arr(s) == RESP("arr", 0, "", s)
NullArr == RESP("nullarr", 0, "", <<>>)

\* The outcome of a sent request that the proxy itself decides: the Back's
\* read timeout (CmdTimeout), a failed send (ProxyFail).
ProxyErrors == {Error("CmdTimeout"), Error("ProxyFail")}

\* CmdType::get_cmd_type: the command table of init_cmds, NotSupport for a
\* name it does not hold.
CmdTypeOf(verb) ==
    CASE verb \in {"DEL", "UNLINK"} -> "Del"
      [] verb = "EXISTS" -> "Exists"
      [] verb = "KEYS" -> "ReadAll"
      [] verb = "DBSIZE" -> "CountAll"
      [] verb = "SCAN" -> "Scan"
      [] verb = "CLIENT" -> "Client"
      [] verb = "MGET" -> "MGet"
      [] verb = "MSET" -> "MSet"
      [] verb \in {"PING", "QUIT", "CLUSTER"} -> "Ctrl"
      [] verb \in {"GET", "TTL", "TYPE"} -> "Read"
      [] verb \in {"SET", "EXPIRE", "APPEND"} -> "Write"
      [] OTHER -> "NotSupport"

\* Command::mk_subs with the request send_req writes for each sub: one sub
\* per key in key order; the sub of an MGET is sent as GET.
MkSubsWithVerb(r) ==
    LET keys == <<r.verb>> \o r.args IN
    [i \in 1..Len(keys) |->
        [verb |-> IF r.verb = "MGET" THEN "GET" ELSE r.verb, args |-> <<keys[i]>>]]

MkSubs(r) ==
    [i \in 1..Len(r.args) |->
        [verb |-> IF r.verb = "MGET" THEN "GET" ELSE r.verb, args |-> <<r.args[i]>>]]

\* Command::mk_mset with its send_req: one "MSET key value" sub per pair of
\* arguments.  The code indexes chunk[1] of every chunk of two, so an odd
\* argument count panics the Front task.
MkMset(r) ==
    [i \in 1..Len(r.args) \div 2 |->
        [verb |-> "MSET", args |-> <<r.args[2 * i - 1], r.args[2 * i]>>]]

\* The Command From<MessageMut> and check_valid make of a request: answered
\* locally, split into subs, sent whole to one backend, or a panic.
Cmd(kind, reply, sent) == [kind |-> kind, reply |-> reply, sent |-> sent]

\* TLS_META, the thread-local Meta that get_ip and get_port read: Some only
\* after meta_init.  spawn_worker builds the Meta with load_meta and only
\* logs it; nothing in the program calls meta_init, so it stays None.
MetaInit == FALSE

\* check_valid on CLUSTER SLOTS / NODES (the sub-command taken through
\* upper): build_cluster_slots_reply and build_cluster_nodes_reply call
\* meta::get_port(), whose expect panics the Front task while TLS_META is
\* None.  With a Meta the reply is the synthesized layout, abstracted here
\* to one value.
ClusterAnswer == IF MetaInit THEN Cmd("local", Bulk("layout"), <<>>)
                 ELSE Cmd("panic", NullArr, <<>>)

IsClusterInfo(r) ==
    r.verb = "CLUSTER" /\ Len(r.args) >= 1 /\ r.args[1] \in {"SLOTS", "NODES"}

FromMessage(r) ==
    LET t == CmdTypeOf(r.verb) IN
    CASE t = "NotSupport" -> Cmd("local", Error("NotSupport"), <<>>)
      [] t = "Ctrl" /\ r.verb = "PING" -> Cmd("local", Simple("PONG"), <<>>)
      [] t = "Ctrl" /\ r.verb = "QUIT" -> Cmd("local", Simple(""), <<>>)
      [] t = "Ctrl" /\ IsClusterInfo(r) -> ClusterAnswer
      [] t = "Ctrl" -> Cmd("local", Error("NotSupport"), <<>>)
      [] t \in {"Del", "Exists", "MGet"} -> Cmd("subs", NullArr, MkSubs(r))
      [] t = "MSet" /\ Len(r.args) % 2 = 1 -> Cmd("panic", NullArr, <<>>)
      [] t = "MSet" -> Cmd("subs", NullArr, MkMset(r))
      [] OTHER -> Cmd("whole", NullArr, <<r>>)

\* btoi(reply.nth(0)).unwrap_or(0): the integer of an integer reply, 0 for
\* anything else.
IntOf(r) == IF r.t = "int" THEN r.n ELSE 0

\* The DEL / EXISTS / COUNTALL branch of reply_cmd: the sum over the subs.
RECURSIVE SumOf(_)
SumOf(s) == IF s = <<>> THEN 0 ELSE IntOf(Head(s)) + SumOf(Tail(s))

\* Command::reply_cmd for a Command of type t.  hasSubs tells whether
\* From<MessageMut> gave it subs; own is the reply stored in the Command
\* itself (reply_raw).  Standalone mode never builds the subs of ReadAll,
\* CountAll and Scan (nothing calls mk_read_all_subs), so their branches
\* are the no-subs arms.
ReplyCmd(t, hasSubs, subReplies, own) ==
    CASE t \in {"MSet", "Client"} -> Simple("OK")
      [] t = "MGet" /\ hasSubs -> Arr(subReplies)
      [] t \in {"MGet", "ReadAll", "Scan"} /\ ~hasSubs -> NullArr
      [] t \in {"Del", "Exists", "CountAll"} ->
            IF hasSubs THEN IntReply(SumOf(subReplies)) ELSE IntReply(0)
      [] OTHER -> own

\* What the client reads back for the current request and outcomes.
ClientReply ==
    LET c == FromMessage(req) IN
    ReplyCmd(CmdTypeOf(req.verb), c.kind = "subs", outs,
             IF c.kind = "local" THEN c.reply ELSE outs[1])

Requests ==
    {[verb |-> v, args |-> a] :
        v \in Verbs, a \in UNION {[1..k -> Args] : k \in 0..MAX_ARGS}}

Outcome(r) == Answers(r.verb) \cup ProxyErrors

Outcomes(sent) ==
    {o \in [1..Len(sent) -> UNION {Outcome(sent[i]) : i \in 1..Len(sent)}] :
        \A i \in 1..Len(sent) : o[i] \in Outcome(sent[i])}

\* Every request a client may send, with every outcome of the requests
\* the proxy sends for it: a backend answer or an error the proxy sets.
Init ==
    /\ req \in Requests
    /\ outs \in Outcomes(FromMessage(req).sent)

Spec == Init /\ [][UNCHANGED vars]_vars

-----------------------------------------------------------------------------
(* Properties.                                                            *)

\* The spec's fan-out replies (spec 4.1): an MGET of n >= 1 keys is
\* answered *n followed by the reply of each key in key order, whatever
\* each key's outcome was; a DEL or EXISTS of n >= 1 keys is answered with
\* the sum of the integer replies of its keys; an MSET of n >= 1 pairs is
\* split into one SET per pair, in order, and answered +OK once every one
\* of them succeeded.  This is what mk_subs, mk_mset, the rewrites of
\* send_req and reply_cmd must give together.  A sub of an MSET goes out
\* as MSET with its one pair, which a redis server executes and answers
\* as the SET of that pair.
SpecFanOut ==
    IF req.verb = "MGET" THEN Arr(outs)
    ELSE IntReply(FoldSeq(LAMBDA r, acc : acc + IntOf(r), 0, outs))

KeyFanOut ==
    CmdTypeOf(req.verb) \in {"MGet", "Del", "Exists"} /\ Len(req.args) >= 1
    => /\ Len(FromMessage(req).sent) = Len(req.args)
       /\ \A i \in DOMAIN FromMessage(req).sent :
             FromMessage(req).sent[i] =
                [verb |-> IF req.verb = "MGET" THEN "GET" ELSE req.verb,
                 args |-> <<req.args[i]>>]
       /\ ClientReply = SpecFanOut

SetsPair(s, k, v) == s.verb \in {"SET", "MSET"} /\ s.args = <<k, v>>

MsetFanOut ==
    req.verb = "MSET" /\ Len(req.args) >= 2 /\ Len(req.args) % 2 = 0
    => /\ Len(FromMessage(req).sent) = Len(req.args) \div 2
       /\ \A i \in DOMAIN FromMessage(req).sent :
             SetsPair(FromMessage(req).sent[i], req.args[2 * i - 1], req.args[2 * i])
       /\ (\A i \in DOMAIN outs : outs[i] = Simple("OK")) => ClientReply = Simple("OK")

FanOutReplyMatchesSpec == KeyFanOut /\ MsetFanOut

\* A request that is sent whole to one backend is answered with that
\* backend's answer (spec 1: read the reply and return it to the client),
\* SCAN with its cursor reported as 0 (spec 4.1).
SpecWhole(r) ==
    IF CmdTypeOf(req.verb) = "Scan" /\ r.t = "arr" /\ Len(r.items) = 2
    THEN Arr(<<Bulk("0"), r.items[2]>>)
    ELSE r

ForwardedReplyMatchesSpec ==
    FromMessage(req).kind = "whole" /\ outs[1] \notin ProxyErrors
    => ClientReply = SpecWhole(outs[1])

=============================================================================
