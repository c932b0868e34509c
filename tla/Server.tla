------------------------------- MODULE Server -------------------------------
(***************************************************************************)
(* 서버 (b_server, srv_one and what they call): a program hands over its   *)
(* thread, which then serves one connection at a time until Ctrl-C.  Peers *)
(* send their request in pieces, drip a byte now and then, fall silent,    *)
(* hang up, or never read the answer; a route may return, fail, leave by   *)
(* 멈춤, never end, or return a value that cannot be turned into a         *)
(* response.                                                               *)
(***************************************************************************)
EXTENDS Naturals, Sequences, FiniteSets

CONSTANTS
    Conns, NoConn,  \* connections peers may make
    Backlog,        \* connections the kernel keeps waiting (listen)
    Limit,          \* pieces a request may have (16 MB)
    MaxCalls,       \* times the program calls 서버
    MaxInts         \* times Ctrl-C is pressed

ASSUME BoundsAssumption ==
    /\ NoConn \notin Conns
    /\ {Backlog, MaxCalls, MaxInts} \subseteq Nat /\ Limit \in Nat \ {0}

\* A request: the pieces of its header and of the body it announces, and what
\* it asks for.
Asks == {"garbled", "plain", "route"}
Requests ==
    [ask : Asks, head : {1}, body : {0}]
    \cup [ask : {"route"}, head : {1}, body : {1, Limit}]
    \cup [ask : {"garbled"}, head : {Limit + 2}, body : {0}]
Fates == {"value", "bad_value", "error", "throw", "loops"}

\* What ended a connection before its answer: the listener was closed, the
\* route left by a throw, Ctrl-C broke into a call, or the route's value had
\* no response and the error slipped past b_server.
Cuts == {"no", "listener", "throw", "ctrl_c", "slip"}

VARIABLES
    pc,
    listeners,           \* listening sockets that are open
    cur, fds,            \* the connection served; the accepted ones not closed
    queue,               \* connections that wait to be accepted
    peer,                \* per connection: what the peer has done
    have,                \* pieces read of the current request
    fate,                \* what its route does
    quiet,               \* no byte came for the five seconds of SO_RCVTIMEO
    stop,                \* g_srv_stop
    sigint, sigpipe,     \* the process's actions on the two signals
    old,                 \* the actions b_server found
    rethrow,             \* the signal of the interpreter to pass on
    dead,                \* Ctrl-C ended the process
    calls, ints,         \* bounds
    slips, late          \* errors that flew past b_server; accepts since stop
vars == <<pc, listeners, cur, fds, queue, peer, have, fate, quiet, stop,
          sigint, sigpipe, old, rethrow, dead, calls, ints, slips, late>>
process == <<listeners, stop, sigint, sigpipe, old, rethrow, dead, calls,
             ints, slips, late>>
request == <<cur, fds, have, fate, quiet>>

NewPeer == [st |-> "new", req |-> [ask |-> "garbled", head |-> 1, body |-> 0],
            sent |-> 0, hung |-> FALSE, deaf |-> FALSE, answers |-> 0,
            asked |-> FALSE, cut |-> "no"]
\* What is left of a connection that is closed.
Closed(p) == [NewPeer EXCEPT !.st = "closed", !.hung = p.hung, !.asked = p.asked,
                             !.answers = p.answers, !.cut = p.cut]
Reading == {"head", "body"}
Serving == Reading \cup {"dispatch", "route", "result", "write", "close"}
Leaving == {"restore_int", "restore_pipe", "close_listener"}
Steps == {"caller", "listening", "arm_int", "arm_pipe", "check", "accept"}
         \cup Serving \cup Leaving

TypeOK ==
    /\ pc \in Steps
    /\ listeners \in 0..MaxCalls /\ fds \subseteq Conns
    /\ cur \in Conns \cup {NoConn}
    /\ (pc \in Serving) = (cur # NoConn)
    /\ queue \in Seq(Conns) /\ Len(queue) <= Backlog
    /\ \A c \in Conns :
          /\ peer[c].st \in {"new", "queued", "open", "closed"}
          /\ peer[c].req \in Requests
          /\ peer[c].sent \in 0..(peer[c].req.head + peer[c].req.body)
          /\ {peer[c].hung, peer[c].deaf, peer[c].asked} \subseteq BOOLEAN
          /\ peer[c].cut \in Cuts
    /\ have \in 0..(Limit + 1)
    /\ fate \in Fates
    /\ {quiet, stop, rethrow, dead} \subseteq BOOLEAN
    /\ sigint \in {"dfl", "srv"} /\ sigpipe \in {"dfl", "ign"}
    /\ old \in {"dfl", "srv"} \X {"dfl", "ign"}

Init ==
    /\ pc = "caller" /\ listeners = 0 /\ cur = NoConn /\ fds = {}
    /\ queue = <<>> /\ peer = [c \in Conns |-> NewPeer]
    /\ have = 0 /\ fate = "value" /\ quiet = FALSE
    /\ stop = FALSE /\ sigint = "dfl" /\ sigpipe = "dfl"
    /\ old = <<"dfl", "dfl">> /\ rethrow = FALSE /\ dead = FALSE
    /\ calls = 0 /\ ints = 0 /\ slips = 0 /\ late = 0

----------------------------------------------------------------------------
(* Entering and leaving b_server *)

\* socket, bind, listen.  The port is taken while an earlier call's listener
\* is still open, and any of the three may fail: an error for the caller.
Call ==
    /\ pc = "caller" /\ calls < MaxCalls /\ calls' = calls + 1
    /\ \/ listeners = 0 /\ listeners' = 1 /\ pc' = "listening"
       \/ UNCHANGED <<listeners, pc>>
    /\ UNCHANGED <<request, queue, peer, stop, sigint, sigpipe, old, rethrow,
                   dead, ints, slips, late>>

ClearStop ==
    /\ pc = "listening" /\ pc' = "arm_int"
    /\ stop' = FALSE /\ late' = 0 /\ rethrow' = FALSE
    /\ UNCHANGED <<listeners, request, queue, peer, sigint, sigpipe, old,
                   dead, calls, ints, slips>>

ArmInt ==
    /\ pc = "arm_int" /\ pc' = "arm_pipe"
    /\ old' = <<sigint, old[2]>> /\ sigint' = "srv"
    /\ UNCHANGED <<listeners, request, queue, peer, stop, sigpipe, rethrow,
                   dead, calls, ints, slips, late>>

ArmPipe ==
    /\ pc = "arm_pipe" /\ pc' = "check"
    /\ old' = <<old[1], sigpipe>> /\ sigpipe' = "ign"
    /\ UNCHANGED <<listeners, request, queue, peer, stop, sigint, rethrow,
                   dead, calls, ints, slips, late>>

\* Mutated: the loop ends on a signal of the interpreter only.
CheckRethrow ==
    /\ pc = "check"
    /\ pc' = IF rethrow THEN "restore_int" ELSE "accept"
    /\ UNCHANGED <<process, request, queue, peer>>

\* The loop's condition: read once, then accept waits.
Check ==
    /\ pc = "check"
    /\ pc' = IF stop \/ rethrow THEN "restore_int" ELSE "accept"
    /\ UNCHANGED <<process, request, queue, peer>>

\* Mutated: the interrupt's action is put back on a plain end only.
RestoreIntUnlessThrown ==
    /\ pc = "restore_int" /\ pc' = "restore_pipe"
    /\ sigint' = IF rethrow THEN sigint ELSE old[1]
    /\ UNCHANGED <<listeners, request, queue, peer, stop, sigpipe, old,
                   rethrow, dead, calls, ints, slips, late>>

RestoreInt ==
    /\ pc = "restore_int" /\ pc' = "restore_pipe" /\ sigint' = old[1]
    /\ UNCHANGED <<listeners, request, queue, peer, stop, sigpipe, old,
                   rethrow, dead, calls, ints, slips, late>>

RestorePipe ==
    /\ pc = "restore_pipe" /\ pc' = "close_listener" /\ sigpipe' = old[2]
    /\ UNCHANGED <<listeners, request, queue, peer, stop, sigint, old,
                   rethrow, dead, calls, ints, slips, late>>

\* close(srv): who still waits is turned away.
CloseListener ==
    /\ pc = "close_listener" /\ pc' = "caller"
    /\ listeners' = listeners - 1
    /\ queue' = <<>>
    /\ peer' = [c \in Conns |-> IF peer[c].st = "queued"
                                THEN Closed([peer[c] EXCEPT !.cut = "listener"])
                                ELSE peer[c]]
    /\ UNCHANGED <<request, stop, sigint, sigpipe, old, rethrow, dead, calls,
                   ints, slips, late>>

----------------------------------------------------------------------------
(* accept and srv_read_request *)

Accept ==
    /\ pc = "accept" /\ queue # <<>>
    /\ cur' = Head(queue) /\ queue' = Tail(queue)
    /\ fds' = fds \cup {cur'} /\ peer' = [peer EXCEPT ![cur'].st = "open"]
    /\ have' = 0 /\ quiet' = FALSE /\ pc' = "head"
    /\ late' = late + (IF stop THEN 1 ELSE 0)
    /\ UNCHANGED <<fate, listeners, stop, sigint, sigpipe, old,
                   rethrow, dead, calls, ints, slips>>

\* Any error but EINTR ends the loop.
AcceptFails ==
    /\ pc = "accept" /\ pc' = "restore_int"
    /\ UNCHANGED <<process, request, queue, peer>>

\* Each call of read waits for five seconds of its own.
To(next) == pc' = next /\ quiet' = FALSE /\ UNCHANGED <<process, cur, fds, queue, peer>>

Unread(c) == peer[c].sent - have
Req == peer[cur].req

\* One piece arrives: the header loop tests the size it had before.
ReadHead ==
    /\ pc = "head" /\ Unread(cur) > 0
    /\ IF have > Limit
       THEN UNCHANGED have /\ To("close")
       ELSE /\ have' = have + 1
            /\ To(IF have' = Req.head THEN "body" ELSE "head")
    /\ UNCHANGED fate

\* Mutated: a body that does not come is waited for.
ReadNothingWaits ==
    /\ pc \in Reading /\ Unread(cur) = 0 /\ (quiet \/ peer[cur].hung)
    /\ pc = "body" => have < Req.head + Req.body
    /\ To(IF pc = "head" THEN "close" ELSE "body")
    /\ UNCHANGED <<have, fate>>

\* The peer hung up or five seconds went by: without a header the request is
\* dropped, with one it goes on with the body it has.
ReadNothing ==
    /\ pc \in Reading /\ Unread(cur) = 0 /\ (quiet \/ peer[cur].hung)
    /\ pc = "body" => have < Req.head + Req.body
    /\ To(IF pc = "head" THEN "close" ELSE "dispatch")
    /\ UNCHANGED <<have, fate>>

\* The body loop tests the size it has now.
ReadBody ==
    /\ pc = "body"
    /\ IF have = Req.head + Req.body
       THEN UNCHANGED have /\ To("dispatch")
       ELSE /\ Unread(cur) > 0
            /\ have' = have + 1
            /\ To(IF have' > Limit THEN "close" ELSE "body")
    /\ UNCHANGED fate

----------------------------------------------------------------------------
(* srv_one *)

Go(next) == pc' = next /\ UNCHANGED <<process, cur, fds, quiet, queue>>

\* A route is called; other sound requests are answered without the program:
\* a file of the static directory, 404 or 501.
Dispatch ==
    /\ pc = "dispatch"
    /\ peer' = [peer EXCEPT ![cur].asked = (Req.ask # "garbled")]
    /\ CASE Req.ask = "garbled" -> Go("close") /\ UNCHANGED fate
         [] Req.ask = "plain" -> Go("write") /\ UNCHANGED fate
         [] Req.ask = "route" -> Go("route") /\ fate' \in Fates
    /\ UNCHANGED have

\* Mutated: an error of the route closes the connection.
RouteEndsUnanswered ==
    /\ pc = "route" /\ fate # "loops"
    /\ CASE fate = "error" -> pc' = "close" /\ UNCHANGED <<cur, fds, queue>> /\ UNCHANGED <<peer, rethrow>>
         [] fate = "throw" -> /\ pc' = "close" /\ rethrow' = TRUE
                              /\ peer' = [peer EXCEPT ![cur].cut = "throw"]
                              /\ UNCHANGED <<cur, fds, queue>>
         [] OTHER -> /\ pc' = "result"
                     /\ UNCHANGED <<cur, fds, queue, peer, rethrow>>
    /\ UNCHANGED <<have, fate, quiet, listeners, stop, sigint, sigpipe, old, dead,
                   calls, ints, slips, late>>

\* apply_func under srv_one's handler: an error is answered, any other signal
\* of the interpreter closes the connection and ends the service.
RouteEnds ==
    /\ pc = "route" /\ fate # "loops"
    /\ CASE fate = "error" -> pc' = "write" /\ UNCHANGED <<cur, fds, queue>> /\ UNCHANGED <<peer, rethrow>>
         [] fate = "throw" -> /\ pc' = "close" /\ rethrow' = TRUE
                              /\ peer' = [peer EXCEPT ![cur].cut = "throw"]
                              /\ UNCHANGED <<cur, fds, queue>>
         [] OTHER -> /\ pc' = "result"
                     /\ UNCHANGED <<cur, fds, queue, peer, rethrow>>
    /\ UNCHANGED <<have, fate, quiet, listeners, stop, sigint, sigpipe, old, dead,
                   calls, ints, slips, late>>

\* The handler is gone: a value that has no text, or a status that is no
\* number, throws past b_server, and what it holds stays as it is: the connection is
\* neither answered nor closed.
Result ==
    /\ pc = "result"
    /\ IF fate = "value"
       THEN pc' = "write" /\ UNCHANGED <<cur, fds, queue, peer, listeners, stop, sigint,
                           sigpipe, old, rethrow, dead, calls, ints, slips, late>>
       ELSE /\ pc' = "caller" /\ cur' = NoConn /\ slips' = slips + 1
            /\ peer' = [peer EXCEPT ![cur].cut = "slip"]
            /\ UNCHANGED <<fds, queue, listeners, stop, sigint,
                           sigpipe, old, rethrow, dead, calls, ints, late>>
    /\ UNCHANGED <<have, fate, quiet>>

\* write_all returns when all is sent or the peer is gone; it waits as long
\* as the peer does not read.
Write ==
    /\ pc = "write" /\ (peer[cur].hung \/ ~peer[cur].deaf)
    /\ peer' = [peer EXCEPT ![cur].answers = @ + (IF peer[cur].hung THEN 0 ELSE 1)]
    /\ pc' = "close"
    /\ UNCHANGED <<process, request, queue>>

Close ==
    /\ pc = "close" /\ pc' = "check"
    /\ fds' = fds \ {cur} /\ cur' = NoConn
    /\ peer' = [peer EXCEPT ![cur] = Closed(@)]
    /\ have' = 0 /\ fate' = "value"
    /\ UNCHANGED <<process, quiet, queue>>

----------------------------------------------------------------------------
(* Peers and Ctrl-C *)

PeerConnects == \E c \in Conns, r \in Requests, d \in BOOLEAN :
    /\ peer[c].st = "new" /\ listeners > 0 /\ Len(queue) < Backlog
    /\ d => r.ask # "garbled"
    /\ peer' = [peer EXCEPT ![c].st = "queued", ![c].req = r, ![c].deaf = d]
    /\ queue' = Append(queue, c)
    /\ UNCHANGED <<pc, process, request>>

\* What a peer does before it is accepted makes no difference until it is
\* read: it is done while the connection is served.
PeerSends ==
    /\ cur # NoConn /\ ~peer[cur].hung
    /\ peer[cur].sent < Req.head + Req.body
    /\ peer' = [peer EXCEPT ![cur].sent = @ + 1] /\ quiet' = FALSE
    /\ UNCHANGED <<pc, process, cur, fds, have, fate, queue>>

\* Five seconds go by without a byte.  A peer that never lets that happen but
\* completes no piece either drips: 16 MB end it, a byte in five seconds only
\* after years, which is taken as never.
PeerFallsSilent ==
    /\ pc \in Reading /\ ~quiet /\ ~peer[cur].hung /\ Unread(cur) = 0
    /\ quiet' = TRUE
    /\ UNCHANGED <<pc, process, cur, fds, have, fate, queue, peer>>

PeerHangsUp ==
    /\ cur # NoConn /\ ~peer[cur].hung
    /\ peer' = [peer EXCEPT ![cur].hung = TRUE]
    /\ UNCHANGED <<pc, process, request, queue>>

\* srv_on_sigint sets the flag; a call that waits is cut short unless the
\* signal came just before it began to wait.  Without the action of 서버 the
\* process ends.
Interrupt ==
    /\ ints < MaxInts /\ ~dead /\ ints' = ints + 1
    /\ IF sigint = "dfl"
       THEN dead' = TRUE /\ UNCHANGED <<pc, stop, peer>>
       ELSE /\ UNCHANGED dead /\ stop' = TRUE
            /\ \/ UNCHANGED <<pc, peer>>
               \/ /\ pc \in {"accept", "write"} \cup Reading
                  /\ pc' = CASE pc = "accept" -> "check"
                             [] pc = "body" -> "dispatch"
                             [] OTHER -> "close"
                  /\ IF pc = "accept" THEN UNCHANGED peer
                     ELSE peer' = [peer EXCEPT ![cur].cut = "ctrl_c"]
    /\ UNCHANGED <<listeners, request, queue, sigint, sigpipe, old, rethrow,
                   calls, slips, late>>

----------------------------------------------------------------------------
Own ==
    \/ ClearStop \/ ArmInt \/ ArmPipe \/ Check \/ RestoreInt \/ RestorePipe
    \/ CloseListener \/ Accept \/ ReadHead \/ ReadNothing \/ ReadBody
    \/ Dispatch \/ RouteEnds \/ Result \/ Write \/ Close

Next == \/ ~dead /\ (Call \/ Own \/ AcceptFails)
        \/ ~dead /\ (PeerConnects \/ PeerSends \/ PeerFallsSilent \/ PeerHangsUp
                  \/ Interrupt)

\* The thread runs, and a call that waited for five silent seconds returns.
\* Nothing is asked of peers (not even that they fall silent), of Ctrl-C or of
\* a route that loops.
Spec == Init /\ [][Next]_vars /\ WF_vars(~dead /\ Own)

----------------------------------------------------------------------------
(* What must hold *)

\* What b_server took from the process it has given back when its caller goes
\* on, on every way out but one: each error that slips past it leaves one
\* listener and one connection open, and Ctrl-C and SIGPIPE stay its own.
GivesBack ==
    pc = "caller" =>
        /\ listeners <= slips /\ Cardinality(fds) <= slips
        /\ slips = 0 => sigint = "dfl" /\ sigpipe = "dfl"

\* One connection at a time (comment in b_server), and a connection that got as
\* far as a sound request is answered exactly once when it is no longer served,
\* unless the peer left, Ctrl-C broke into it, the route left by a throw, or
\* the route's value had no response: that one is never answered, and it is
\* the only kind that stays open, one for each error that slips past.
AnsweredOnce ==
    /\ Cardinality(fds \ {cur}) <= slips
    /\ \A c \in Conns : LET p == peer[c] IN
          /\ p.answers <= (IF p.asked THEN 1 ELSE 0)
          /\ c # cur /\ p.asked /\ ~p.hung /\ p.cut = "no" => p.answers = 1
          /\ p.st = "open" /\ c # cur <=> p.cut = "slip"
          /\ p.cut = "slip" => p.answers = 0

\* Ctrl-C ends the service after at most one more connection: the one that
\* accept was already about to wait for.
StopsSoon == late <= 1

\* What can hold the thread up: a peer that does not read its answer, a peer
\* that drips (both named by the comment in b_server), a route that never ends.
Blocked == \/ pc = "write" /\ peer[cur].deaf
           \/ pc \in Reading /\ ~quiet /\ ~peer[cur].hung
           \/ pc = "route" /\ fate = "loops"

\* Nothing else keeps the connections that wait, and none of the three does so
\* once it has ended: who waits is served and closed unless the thread is held
\* up for good, Ctrl-C ends the process, or an error slips past b_server and
\* leaves the listener to nobody.
NobodyWaitsForEver ==
    \A c \in Conns :
        (peer[c].st = "queued") ~>
            (peer[c].st = "closed" \/ dead \/ pc = "caller" \/ []Blocked)

\* Ctrl-C is heard: the service ends, unless it is held up for good or waits
\* for one last connection that never comes.
StopIsHeard ==
    (stop /\ pc \in Serving \cup {"check", "accept"}) ~>
        (pc = "caller" \/ dead \/ []Blocked \/ [](pc = "accept" /\ queue = <<>>))
=============================================================================
