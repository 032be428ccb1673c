----------------------------- MODULE StreamPump -----------------------------
(***************************************************************************)
(* An executor call from its admission to its last deferred close          *)
(* (main.go, stream.go, executor_http.go), the transport that carries it   *)
(* (host_bridge.go, proxy.go), and what happens around it: holds come and  *)
(* go, the proxy is reconfigured, the client leaves, the upstream breaks   *)
(* off.                                                                    *)
(*                                                                         *)
(* A line of the upstream is abstracted to what the loops tell apart; a    *)
(* blank or unparsable one changes nothing in any of them and is left out. *)
(* Each goroutine owns its stream, so a line is read, cleaned and handed   *)
(* on in one step; what others can change in between (the hold, the proxy, *)
(* the client) is read in that step.  What a failure then sets off is in   *)
(* QuotaFreeze (the table of holds), AuthFile (reconciliation) and         *)
(* AccountCache (credits).                                                 *)
(***************************************************************************)
EXTENDS Naturals, Sequences

CONSTANTS
    Calls,       \* executor calls
    MaxLines     \* bound: lines an upstream sends before it ends

ASSUME StreamPumpConstants == MaxLines \in Nat \ {0}

VARIABLES
    host,        \* the host's bridge: present, absent, or a Windows host
    proxy,       \* proxyState.mode
    held,        \* is the account (or the pair) of these calls held?
    call         \* the calls, their streams, and what became of them

pumpVars == <<host, proxy, held, call>>

\* handleExecExecute folds; handleExecStream pumps in a goroutine, or collects
\* when the host gave no stream; handleExecHTTPRequest carries anything.
Kinds == {"fold", "sync", "async", "raw", "plain"}
Executor == {"fold", "sync", "async"}
Modes == {"inherit", "explicit", "blocked"}
Hosts == {"bridge", "none", "windows"}

\* Lines: choices; metadata without choices; a choice cleaned to nothing; an
\* error frame that proves a limit, and one that does not; [DONE].
Faults == {"limit", "error"}
Lines == {"chunk", "meta", "shell", "done"} \cup Faults
Ends == {"open", "eof", "broken"}

Idle == [pc |-> "idle", kind |-> "none", mode |-> "none", sent |-> <<>>, status |-> "none",
         up |-> <<>>, end |-> "open", body |-> "none", sink |-> "none", got |-> {},
         told |-> 0, usage |-> <<>>, blame |-> <<>>, answer |-> "none"]

-----------------------------------------------------------------------------
(* What the loops make of a line.                                          *)

\* cleanChunkJSON keeps metadata and drops empty shells; the fold counts choices.
Events(kind) == IF kind = "fold" THEN {"chunk", "shell"} ELSE {"chunk", "meta"}
EventsOf(r) == {i \in DOMAIN r.up : r.up[i] \in Events(r.kind)}

\* A frame or an error body that proves a limit becomes a hold.
holds(evidence) == held' = (held \/ evidence = "limit")

-----------------------------------------------------------------------------
(* Leaving a loop.  Deferred calls run last, see Unwind.                   *)

publishes(kind) == kind \in Executor

\* The error frame of the pump; the host drops it when the client has left.
tells(r) == IF r.sink = "open" THEN r.told + 1 ELSE r.told

\* A failed call: one usage record, the answer of the RPC or an error frame.
Fail(r, blame) ==
    [r EXCEPT !.pc = "unwind",
              !.usage = IF publishes(r.kind) THEN Append(@, "failed") ELSE @,
              !.blame = @ \o blame,
              !.told = tells(r),
              !.answer = IF r.kind = "async" THEN @ ELSE "error"]

\* Mutated: an emit failure leaves the loop like a [DONE].
AbandonBreaks(r) == [r EXCEPT !.pc = "after"]

\* Mutated: an emit failure counts as a broken upstream.
AbandonBlames(r) == [Fail(r, <<"broken">>) EXCEPT !.told = r.told]

\* The emit failed: the client has left, nobody is told and nobody is blamed.
Abandon(r) == [r EXCEPT !.pc = "unwind", !.usage = Append(@, "failed")]

Succeed(r) ==
    [r EXCEPT !.pc = "unwind",
              !.usage = IF publishes(r.kind) THEN Append(@, "ok") ELSE @,
              !.answer = IF r.kind = "async" THEN @ ELSE "ok"]

-----------------------------------------------------------------------------
(* Admission.                                                              *)

\* The catalog is not ready, or a hold is active: the request goes no further.
Refuse(c, k) ==
    /\ call[c].pc = "idle"
    /\ call' = [call EXCEPT ![c] = [Idle EXCEPT !.pc = "done", !.kind = k, !.answer = "refused"]]
    /\ UNCHANGED <<host, proxy, held>>

\* An async call is answered at once and goes on in its goroutine.  The generic
\* route asks for holds only when it carries a chat, and only once.
AdmitCall(c, k) ==
    /\ call[c].pc = "idle"
    /\ held => k = "plain"
    /\ call' = [call EXCEPT ![c] =
            [Idle EXCEPT !.pc = IF k \in Executor THEN "guard" ELSE "route",
                         !.kind = k,
                         !.sink = IF k = "async" THEN "open" ELSE "none",
                         !.answer = IF k = "async" THEN "stream" ELSE "none"]]
    /\ UNCHANGED <<host, proxy, held>>

\* The second guard, right before the request is opened.  Only the collector
\* has a caller that publishes the refusal as a failed call.
Guard(c) ==
    LET r == call[c] IN
    /\ r.pc = "guard"
    /\ call' = [call EXCEPT ![c] =
            CASE ~held -> [r EXCEPT !.pc = "route"]
              [] held /\ r.kind = "async" -> [r EXCEPT !.pc = "unwind", !.told = tells(r)]
              [] held /\ r.kind = "sync" -> [Fail(r, <<>>) EXCEPT !.answer = "refused"]
              [] held /\ r.kind = "fold" -> [r EXCEPT !.pc = "unwind", !.answer = "refused"]]
    /\ UNCHANGED <<host, proxy, held>>

-----------------------------------------------------------------------------
(* The transport.                                                          *)

\* A call through the inherited transport uses the bridge when there is one;
\* buffered calls on Windows do not.
Inherited(kind) ==
    IF host = "none" \/ (host = "windows" /\ kind \notin Executor) THEN "direct" ELSE "bridge"

Transport(r) == IF r.mode = "explicit" THEN "proxy" ELSE Inherited(r.kind)

\* The routing state is loaded once per request.
Route(c) ==
    /\ call[c].pc = "route"
    /\ call' = [call EXCEPT ![c] =
            IF proxy = "blocked" THEN Fail([@ EXCEPT !.mode = proxy], <<>>)
            ELSE [@ EXCEPT !.pc = "send", !.mode = proxy]]
    /\ UNCHANGED <<host, proxy, held>>

Handed(r) == [r EXCEPT !.sent = Append(@, Transport(r))]

\* Mutated: a bridge that fails is taken as absent, and the request goes out again.
SendFailsReplays(c) ==
    /\ call[c].pc = "send"
    /\ call' = [call EXCEPT ![c] = IF @.sent = <<>> /\ @.mode = "inherit" THEN Handed(@)
                                   ELSE Fail(Handed(@), <<>>)]
    /\ UNCHANGED <<host, proxy, held>>

\* No response: whatever the transport, the request is not made again.
SendFails(c) ==
    /\ call[c].pc = "send"
    /\ call' = [call EXCEPT ![c] = Fail(Handed(@), <<>>)]
    /\ UNCHANGED <<host, proxy, held>>

\* The response headers of a stream.
Opened(c, status) ==
    /\ call[c].pc = "send" /\ call[c].kind \in Executor
    /\ call' = [call EXCEPT ![c] = [Handed(@) EXCEPT !.pc = IF status = "ok" THEN "read" ELSE "refusal",
                                                     !.status = status,
                                                     !.body = "open"]]
    /\ UNCHANGED <<host, proxy, held>>

\* A status of 400 or more: its body, read to whatever end, is the evidence.
Refusal(c, evidence) ==
    /\ call[c].pc = "refusal"
    /\ call' = [call EXCEPT ![c] = Fail(@, <<evidence>>)]
    /\ holds(evidence)
    /\ UNCHANGED <<host, proxy>>

\* A buffered response, abstracted to its first error frame, or its choices if
\* it has none.  Only a chat's is looked at.
Buffered(c, status, l) ==
    LET r == [Handed(call[c]) EXCEPT !.status = status, !.up = <<l>>, !.end = "eof"] IN
    /\ call[c].pc = "send" /\ call[c].kind \notin Executor
    /\ status = "bad" => l \in Faults
    /\ call' = [call EXCEPT ![c] =
            IF r.kind = "raw" /\ l \in Faults THEN Fail(r, <<l>>) ELSE Succeed(r)]
    /\ IF r.kind = "raw" THEN holds(l) ELSE UNCHANGED held
    /\ UNCHANGED <<host, proxy>>

-----------------------------------------------------------------------------
(* The scan loops of pumpUpstreamStream, aggregateSSEObserved and          *)
(* aggregateCompletionObserved.                                            *)

\* The scanner hands over the next line.  An unterminated last one comes with
\* the end of the body, also with an end that is an error.
Line(c, l, end) ==
    LET r == [call[c] EXCEPT !.up = Append(@, l), !.end = end] IN
    /\ call[c].pc = "read" /\ call[c].end = "open" /\ Len(call[c].up) < MaxLines
    /\ call' = [call EXCEPT ![c] =
            CASE l \in Faults -> Fail(r, <<l>>)
              [] l = "done" -> [r EXCEPT !.pc = "after"]
              [] l \in Events(r.kind) /\ r.sink = "gone" -> Abandon(r)
              [] l \in Events(r.kind) /\ r.sink # "gone" -> [r EXCEPT !.got = @ \cup {Len(r.up)}]
              [] OTHER -> r]
    /\ IF l \in Faults THEN holds(l) ELSE UNCHANGED held
    /\ UNCHANGED <<host, proxy>>

\* The body is over, with io.EOF or with an error.
BodyEnds(c, end) ==
    /\ call[c].pc = "read"
    /\ IF call[c].end = "open" THEN end # "open" ELSE end = call[c].end
    /\ call' = [call EXCEPT ![c] = [@ EXCEPT !.pc = "after", !.end = end]]
    /\ UNCHANGED <<host, proxy, held>>

\* Mutated: the end of the body is taken for the end of the answer.
AfterIgnoresReadError(c) ==
    LET r == call[c]
        own == IF r.kind = "async" THEN <<"broken">> ELSE <<>>
    IN
    /\ r.pc = "after"
    /\ call' = [call EXCEPT ![c] = IF r.got = {} THEN Fail(r, own) ELSE Succeed(r)]
    /\ UNCHANGED <<host, proxy, held>>

\* After the loop: a read error (also one behind a [DONE]) and an empty stream
\* are failures, and only the pump reports them as the account's.
After(c) ==
    LET r == call[c]
        own == IF r.kind = "async" THEN <<"broken">> ELSE <<>>
    IN
    /\ r.pc = "after"
    /\ call' = [call EXCEPT ![c] =
            IF r.end = "broken" \/ r.got = {} THEN Fail(r, own) ELSE Succeed(r)]
    /\ UNCHANGED <<host, proxy, held>>

\* Mutated: stream.Close is deferred after the status check, an error body leaks.
UnwindLeaks(c) ==
    LET r == call[c] IN
    /\ r.pc = "unwind"
    /\ call' = [call EXCEPT ![c] =
            [r EXCEPT !.pc = "done",
                      !.body = IF @ = "open" /\ r.status = "ok" THEN "closed" ELSE @,
                      !.sink = IF @ = "open" THEN "closed" ELSE @]]
    /\ UNCHANGED <<host, proxy, held>>

\* The deferred calls, last first: stream.Close, cancel, closeOnce.
Unwind(c) ==
    LET r == call[c] IN
    /\ r.pc = "unwind"
    /\ call' = [call EXCEPT ![c] = [r EXCEPT !.pc = "done",
                                            !.body = IF @ = "open" THEN "closed" ELSE @,
                                            !.sink = IF @ = "open" THEN "closed" ELSE @]]
    /\ UNCHANGED <<host, proxy, held>>

-----------------------------------------------------------------------------
(* The surroundings.                                                       *)

\* The client goes away; the pump notices at its next emit.
Disconnect(c) ==
    /\ call[c].sink = "open"
    /\ call' = [call EXCEPT ![c].sink = "gone"]
    /\ UNCHANGED <<host, proxy, held>>

\* configure: a plugin configuration, valid or not, replaces the routing state.
Reconfigure(m) ==
    /\ proxy # m
    /\ proxy' = m
    /\ UNCHANGED <<host, held, call>>

\* Other calls, billing answers and the clock set and lift holds.
HoldChanges ==
    /\ held' = ~held
    /\ UNCHANGED <<host, proxy, call>>

-----------------------------------------------------------------------------
PumpInit ==
    /\ host \in Hosts
    /\ proxy = "inherit"
    /\ held = FALSE
    /\ call = [c \in Calls |-> Idle]

Step(c) ==
    \/ Guard(c)
    \/ Route(c)
    \/ SendFails(c)
    \/ \E status \in {"ok", "bad"} : Opened(c, status)
    \/ \E evidence \in Faults : Refusal(c, evidence)
    \/ \E status \in {"ok", "bad"}, l \in {"chunk"} \cup Faults : Buffered(c, status, l)
    \/ \E l \in Lines, end \in Ends : Line(c, l, end)
    \/ \E end \in Ends : BodyEnds(c, end)
    \/ After(c)
    \/ Unwind(c)

PumpNext ==
    \/ \E c \in Calls : \/ \E k \in Kinds : Refuse(c, k) \/ AdmitCall(c, k)
                        \/ Step(c)
                        \/ Disconnect(c)
    \/ \E m \in Modes : Reconfigure(m)
    \/ HoldChanges

PumpSpec == PumpInit /\ [][PumpNext]_pumpVars

\* A goroutine runs on.  A read returns: the clients of the plugin give up after
\* their timeout, which also bounds the lines of a body, and the host after its own.
PumpFairSpec == PumpSpec /\ \A c \in Calls : WF_pumpVars(Step(c))

-----------------------------------------------------------------------------
(* Properties.                                                             *)

CallType ==
    [pc : {"idle", "guard", "route", "send", "refusal", "read", "after", "unwind", "done"},
     kind : Kinds \cup {"none"}, mode : Modes \cup {"none"},
     sent : Seq({"bridge", "direct", "proxy"}), status : {"none", "ok", "bad"},
     up : Seq(Lines), end : Ends, body : {"none", "open", "closed"},
     sink : {"none", "open", "gone", "closed"}, got : SUBSET Nat, told : Nat,
     usage : Seq({"ok", "failed"}), blame : Seq(Faults \cup {"broken"}),
     answer : {"none", "refused", "stream", "error", "ok"}]

\* The types of the variables.
PumpTypeOK ==
    /\ host \in Hosts /\ proxy \in Modes /\ held \in BOOLEAN
    /\ call \in [Calls -> CallType]

\* What the upstream did, from its lines alone: an error frame; a complete
\* stream has an event, no error frame, and an end that is not an error.
Faulty(r) == \E i \in DOMAIN r.up : r.up[i] \in Faults

Complete(r) ==
    /\ r.status = "ok" /\ r.end # "broken"
    /\ EventsOf(r) # {}
    /\ ~Faulty(r)

\* Usage accounting (publishUsage): a finished call that got as far as choosing
\* its transport leaves exactly one usage record, whatever failed on the way,
\* and no call leaves two; the record says ok exactly when the upstream's stream
\* was complete and every event of it was handed on.
UsageFits(r) ==
    /\ r.usage \in {<<>>, <<"ok">>, <<"failed">>}
    /\ r.mode # "none" => r.usage # <<>>
    /\ r.usage = <<"ok">> <=> Complete(r) /\ r.got = EventsOf(r)

UsageTruthful ==
    \A c \in Calls : call[c].pc = "done" /\ call[c].kind \in Executor => UsageFits(call[c])

\* A client that stayed to the end of an async stream, or the caller of a
\* folded or collected one, learns of every incomplete answer, once, and of no
\* other: a stream closed without an error frame was complete.
AnswerFits(r) ==
    IF r.kind = "async"
    THEN r.sink \in {"open", "closed"} => r.told = IF Complete(r) THEN 0 ELSE 1
    ELSE r.answer = "ok" <=> Complete(r)

NoSilentTruncation ==
    \A c \in Calls : call[c].pc = "done" /\ call[c].kind \in Executor => AnswerFits(call[c])

\* recordUpstreamFailure: an account is blamed for what its upstream answered
\* and for nothing else (no refusal, blocked proxy, failed send or lost client),
\* once per call; an error frame or an error status is never overlooked.
BlameOf(r) ==
    /\ r.kind # "plain" /\ (r.status = "bad" \/ Faulty(r)) =>
          \E f \in Faults : r.blame = <<f>>
    /\ r.blame # <<>> =>
          \/ r.status = "bad" \/ Faulty(r)
          \/ /\ r.kind = "async" /\ r.status = "ok" /\ r.blame = <<"broken">>
             /\ r.end = "broken" \/ EventsOf(r) = {}

BlameFits == \A c \in Calls : call[c].pc = "done" => BlameOf(call[c])

\* The comment of hostHTTPDo: many requests are POSTs and may already have
\* executed, so none is handed to a transport twice; a request routed to the
\* proxy never leaves without it, one that was blocked never leaves, and
\* neither does one that was refused.
SentBy(r) ==
    /\ r.mode = "explicit" => r.sent \in {<<>>, <<"proxy">>}
    /\ r.mode = "inherit" => r.sent \in {<<>>, <<"bridge">>, <<"direct">>}
    /\ r.mode \in {"none", "blocked"} \/ r.answer = "refused" => r.sent = <<>>

SentOnce == \A c \in Calls : SentBy(call[c])

\* Every admitted call ends, with the upstream's body and the client's stream
\* closed, whoever left first and wherever it failed.
StreamsEnd ==
    \A c \in Calls :
        call[c].pc # "idle" ~> /\ call[c].pc = "done"
                               /\ call[c].body # "open"
                               /\ call[c].sink # "open"

-----------------------------------------------------------------------------
(* Inductive invariant: what holds of a call at each point of its code.    *)

\* Nothing has been reported yet.
Fresh(r) ==
    /\ r.usage = <<>> /\ r.blame = <<>> /\ r.told = 0
    /\ IF r.kind = "async" THEN r.answer = "stream" /\ r.sink \in {"open", "gone"}
       ELSE r.answer = "none" /\ r.sink = "none"

\* Nothing has come from the upstream yet.
Untouched(r) == r.up = <<>> /\ r.end = "open" /\ r.got = {}

CallInv(r) ==
    /\ r \in CallType
    /\ SentBy(r)
    /\ r.pc = "idle" => r = Idle
    /\ r.pc = "guard" => r.kind \in Executor
    /\ r.pc \in {"guard", "route"} => r.mode = "none"
    /\ r.pc \in {"guard", "route", "send"} =>
          /\ Fresh(r) /\ Untouched(r) /\ r.sent = <<>> /\ r.status = "none"
          /\ r.kind \in Kinds
    /\ r.pc \in {"send", "refusal", "read", "after"} => r.mode \in {"inherit", "explicit"}
    /\ r.pc = "refusal" => Fresh(r) /\ Untouched(r) /\ r.status = "bad" /\ r.kind \in Executor
    /\ r.pc \in {"read", "after"} =>
          /\ Fresh(r) /\ r.status = "ok" /\ r.kind \in Executor
          /\ ~Faulty(r) /\ r.got = EventsOf(r)
    /\ r.pc \in {"unwind", "done"} =>
          /\ BlameOf(r)
          /\ r.kind \in Executor => UsageFits(r) /\ AnswerFits(r)

PumpInv == \A c \in Calls : CallInv(call[c])
=============================================================================
