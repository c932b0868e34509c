---------------------------- MODULE ServerProofs ----------------------------
(***************************************************************************)
(* Theorems about Server's safety: what it takes and gives back, the one   *)
(* answer of each request, and the end after Ctrl-C, for any number of     *)
(* connections, pieces, calls and interrupts.                              *)
(***************************************************************************)
EXTENDS Server, FiniteSetTheorems, TLAPS

-----------------------------------------------------------------------------
(* The inductive invariant *)

PeerRecord ==
    [st : {"new", "queued", "open", "closed"}, req : Requests, sent : Nat,
     hung : BOOLEAN, deaf : BOOLEAN, answers : Nat, asked : BOOLEAN,
     cut : Cuts]

\* What TypeOK leaves open, and that a body is read up to the limit only.
ShapeInv ==
    /\ peer \in [Conns -> PeerRecord]
    /\ calls \in 0 .. MaxCalls /\ ints \in 0 .. MaxInts
    /\ slips \in Nat /\ late \in Nat
    /\ listeners > 0 => calls > 0
    /\ pc = "body" => have <= Limit

\* An error that slips past b_server leaves its listener open, so that no later
\* call gets as far as a second one.
HeldInv ==
    /\ IF pc = "caller" THEN listeners = slips ELSE listeners = 1 /\ slips = 0
    /\ pc \in Serving => fds = {cur}
    /\ pc = "caller" => fds = {} \/ (slips = 1 /\ \E c \in Conns : fds = {c})
    /\ pc \notin Serving \cup {"caller"} => fds = {}

\* The actions b_server found are the process's own, and it knows them for as
\* long as they are replaced.
SignalInv ==
    /\ pc = "caller" /\ slips = 0 => sigint = "dfl" /\ sigpipe = "dfl"
    /\ pc \in {"listening", "arm_int"} => sigint = "dfl" /\ sigpipe = "dfl"
    /\ pc = "arm_pipe" => old[1] = "dfl" /\ sigpipe = "dfl"
    /\ pc \in {"check", "accept", "restore_int"} \cup Serving => old = <<"dfl", "dfl">>
    /\ pc = "restore_pipe" => sigint = "dfl" /\ old[2] = "dfl"
    /\ pc = "close_listener" => sigint = "dfl" /\ sigpipe = "dfl"

\* Who waits, waits once; the connection served is no longer among them.
QueueInv ==
    /\ \A i \in DOMAIN queue : peer[queue[i]].st = "queued"
    /\ \A i, j \in DOMAIN queue : queue[i] = queue[j] => i = j
    /\ cur # NoConn => peer[cur].st = "open"

\* How far a connection's request and answer have got.
Untold(p) == ~p.asked /\ p.answers = 0
Settled(p) ==
    /\ p.answers <= (IF p.asked THEN 1 ELSE 0)
    /\ p.asked /\ ~p.hung /\ p.cut = "no" => p.answers = 1

PeerGood(c) ==
    /\ peer[c].st = "new" => peer[c] = NewPeer
    /\ peer[c].st = "queued" => Untold(peer[c])
    /\ peer[c].st = "closed" => Settled(peer[c])
    /\ peer[c].st = "open" /\ c # cur => peer[c].answers = 0
    /\ c = cur => /\ pc \in Reading \cup {"dispatch"} => Untold(peer[c])
                  /\ pc \in {"route", "result", "write"} => peer[c].asked /\ peer[c].answers = 0
                  /\ pc = "close" => Settled(peer[c])
PeerInv == \A c \in Conns : PeerGood(c)

\* A connection is open without being served exactly when its route's value
\* let an error slip past b_server.
SlipGood(c) == peer[c].cut = "slip" <=> (peer[c].st = "open" /\ c # cur)
SlipInv == \A c \in Conns : SlipGood(c)

\* Once the flag is up the loop is left before the next accept.
LateInv ==
    /\ late <= 1
    /\ pc \in {"arm_int", "arm_pipe", "accept"} => late = 0
    /\ pc \in Serving \cup {"check"} /\ late = 1 => stop

ServerInv ==
    TypeOK /\ ShapeInv /\ HeldInv /\ SignalInv /\ QueueInv /\ PeerInv /\ SlipInv /\ LateInv

-----------------------------------------------------------------------------
(* Steps by what they leave alone *)

\* What the steps of srv_read_request and srv_one, but for its ends, share.
Inner == ReadHead \/ ReadNothing \/ ReadBody \/ Dispatch \/ RouteEnds \/ Write

Peers == PeerConnects \/ PeerSends \/ PeerFallsSilent \/ PeerHangsUp

Edge == \/ Call \/ ClearStop \/ ArmInt \/ ArmPipe \/ RestoreInt \/ RestorePipe
        \/ CloseListener

LEMMA StepKinds ==
    ASSUME [Next]_vars
    PROVE  \/ Edge \/ Inner \/ Peers \/ Interrupt \/ UNCHANGED vars
           \/ Check \/ Accept \/ AcceptFails \/ Result \/ Close
BY DEF Next, Own, Edge, Inner, Peers

LEMMA ReadEffect ==
    ASSUME ReadHead \/ ReadNothing \/ ReadBody
    PROVE  /\ pc \in Reading /\ pc' \in Reading \cup {"dispatch", "close"}
           /\ UNCHANGED <<process, cur, fds, queue, peer, fate>>
BY DEF ReadHead, ReadNothing, ReadBody, To, Reading

LEMMA CurPeer ==
    ASSUME TypeOK, ShapeInv, pc \in Serving
    PROVE  cur \in Conns /\ cur # NoConn /\ peer[cur] \in PeerRecord /\ Req \in Requests
BY DEF TypeOK, ShapeInv, Req, PeerRecord

LEMMA DispatchEffect ==
    ASSUME TypeOK, ShapeInv, Dispatch
    PROVE  /\ pc = "dispatch" /\ pc' \in {"close", "write", "route"}
           /\ UNCHANGED <<process, cur, fds, quiet, queue, have>> /\ fate' \in Fates
           /\ peer' = [peer EXCEPT ![cur].asked = (pc' # "close")]
<1>1. Req.ask \in Asks
  BY CurPeer DEF Dispatch, Serving, Requests, Asks
<1>2. fate \in Fates
  BY DEF TypeOK
<1>3. CASE Req.ask = "garbled"
  BY <1>2, <1>3 DEF Dispatch, Go
<1>4. CASE Req.ask = "plain"
  BY <1>2, <1>4 DEF Dispatch, Go
<1>5. CASE Req.ask = "route"
  BY <1>2, <1>5 DEF Dispatch, Go
<1> QED
  BY <1>1, <1>3, <1>4, <1>5 DEF Asks

LEMMA RouteEndsEffect ==
    ASSUME RouteEnds
    PROVE  /\ pc = "route"
           /\ \/ pc' \in {"write", "result"} /\ UNCHANGED <<peer, rethrow>>
              \/ /\ pc' = "close" /\ rethrow' = TRUE
                 /\ peer' = [peer EXCEPT ![cur].cut = "throw"]
           /\ UNCHANGED <<listeners, stop, sigint, sigpipe, old, dead, calls, ints, slips, late,
                          request, queue>>
<1>1. CASE fate = "error"
  BY <1>1 DEF RouteEnds, request
<1>2. CASE fate = "throw"
  BY <1>2 DEF RouteEnds, request
<1>3. CASE fate \notin {"error", "throw"}
  BY <1>3 DEF RouteEnds, request
<1> QED
  BY <1>1, <1>2, <1>3

LEMMA InnerEffect ==
    ASSUME TypeOK, ShapeInv, Inner
    PROVE  /\ pc \in Serving \ {"close"} /\ pc' \in Serving
           /\ UNCHANGED <<cur, fds, queue, listeners, slips, sigint, sigpipe, old, calls, ints,
                          stop, late>>
<1> USE DEF process, request, Serving, Reading
<1>1. CASE ReadHead \/ ReadNothing \/ ReadBody
  BY <1>1, ReadEffect
<1>2. CASE Dispatch
  BY <1>2, DispatchEffect
<1>3. CASE RouteEnds
  BY <1>3, RouteEndsEffect
<1>4. CASE Write
  BY <1>4 DEF Write
<1> QED
  BY <1>1, <1>2, <1>3, <1>4 DEF Inner

LEMMA PeersEffect ==
    ASSUME Peers
    PROVE  UNCHANGED <<pc, process, cur, fds, have, fate>>
BY DEF Peers, PeerConnects, PeerSends, PeerFallsSilent, PeerHangsUp, request

\* The places at which Ctrl-C cuts a call short, and where it goes on.
Cut(from, to) ==
    \/ from = "accept" /\ to = "check"
    \/ from = "body" /\ to = "dispatch"
    \/ from \in {"head", "write"} /\ to = "close"

LEMMA InterruptEffect ==
    ASSUME Interrupt
    PROVE  /\ \/ pc' = pc /\ peer' = peer
              \/ /\ Cut(pc, pc')
                 /\ peer' = IF pc = "accept" THEN peer
                            ELSE [peer EXCEPT ![cur].cut = "ctrl_c"]
           /\ UNCHANGED <<listeners, request, queue, sigint, sigpipe, old, rethrow, calls,
                          slips, late>>
           /\ (stop => stop') /\ ints < MaxInts /\ ints' = ints + 1
<1>1. CASE sigint = "dfl"
  BY <1>1 DEF Interrupt
<1>2. CASE sigint # "dfl" /\ UNCHANGED <<pc, peer>>
  BY <1>2 DEF Interrupt
<1>3. CASE sigint # "dfl" /\ ~UNCHANGED <<pc, peer>>
  <2>1. /\ pc \in {"accept", "write", "head", "body"}
        /\ pc' = CASE pc = "accept" -> "check"
                   [] pc = "body" -> "dispatch"
                   [] OTHER -> "close"
    BY <1>3 DEF Interrupt, Reading
  <2>2. Cut(pc, pc')
    BY <2>1 DEF Cut
  <2> QED
    BY <1>3, <2>2 DEF Interrupt
<1> QED
  BY <1>1, <1>2, <1>3

-----------------------------------------------------------------------------
(* Signal actions *)

LEMMA SignalStep ==
    ASSUME TypeOK, ShapeInv, HeldInv, SignalInv, [Next]_vars
    PROVE  SignalInv'
<1> USE DEF SignalInv, Serving, Reading
<1>1. ASSUME Inner PROVE SignalInv'
  BY <1>1, InnerEffect
<1>2. ASSUME Check \/ Accept \/ AcceptFails \/ Close PROVE SignalInv'
  BY <1>2 DEF Check, Accept, AcceptFails, Close, process
<1>3. ASSUME Peers \/ UNCHANGED vars PROVE SignalInv'
  BY <1>3, PeersEffect DEF process, vars
<1>4. ASSUME Interrupt PROVE SignalInv'
  BY <1>4, InterruptEffect DEF Cut
<1>5. ASSUME Result PROVE SignalInv'
  BY <1>5 DEF Result, HeldInv
<1>6. ASSUME Edge PROVE SignalInv'
  BY <1>6 DEF Edge, Call, ClearStop, ArmInt, ArmPipe, RestoreInt, RestorePipe, CloseListener,
              HeldInv
<1> QED
  BY <1>1, <1>2, <1>3, <1>4, <1>5, <1>6, StepKinds

-----------------------------------------------------------------------------
(* The listener and the connections *)

LEMMA HeldStep ==
    ASSUME TypeOK, ShapeInv, HeldInv, [Next]_vars
    PROVE  HeldInv'
<1> USE DEF HeldInv, Serving, Reading
<1>1. ASSUME Inner PROVE HeldInv'
  BY <1>1, InnerEffect
<1>2. ASSUME Check \/ AcceptFails PROVE HeldInv'
  BY <1>2 DEF Check, AcceptFails, process, request
<1>3. ASSUME Accept PROVE HeldInv'
  BY <1>3 DEF Accept
<1>4. ASSUME Close PROVE HeldInv'
  BY <1>4 DEF Close, process
<1>5. ASSUME Result PROVE HeldInv'
  <2>1. cur \in Conns
    BY <1>5, CurPeer DEF Result
  <2> QED
    BY <1>5, <2>1 DEF Result
<1>6. ASSUME Edge PROVE HeldInv'
  BY <1>6 DEF Edge, Call, ClearStop, ArmInt, ArmPipe, RestoreInt, RestorePipe, CloseListener,
              request
<1>7. ASSUME Peers \/ UNCHANGED vars PROVE HeldInv'
  BY <1>7, PeersEffect DEF process, request, vars
<1>8. ASSUME Interrupt PROVE HeldInv'
  BY <1>8, InterruptEffect DEF request, Cut
<1> QED
  BY <1>1, <1>2, <1>3, <1>4, <1>5, <1>6, <1>7, <1>8, StepKinds

-----------------------------------------------------------------------------
(* The flag of Ctrl-C *)

LEMMA LateStep ==
    ASSUME TypeOK, ShapeInv, LateInv, [Next]_vars
    PROVE  LateInv'
<1> USE DEF LateInv, Serving, Reading
<1>1. ASSUME Inner PROVE LateInv'
  BY <1>1, InnerEffect
<1>2. ASSUME Check \/ AcceptFails PROVE LateInv'
  BY <1>2 DEF Check, AcceptFails, process, ShapeInv
<1>3. ASSUME Accept PROVE LateInv'
  BY <1>3 DEF Accept
<1>4. ASSUME Close \/ Result PROVE LateInv'
  BY <1>4 DEF Close, Result, process
<1>5. ASSUME Edge PROVE LateInv'
  BY <1>5 DEF Edge, Call, ClearStop, ArmInt, ArmPipe, RestoreInt, RestorePipe, CloseListener
<1>6. ASSUME Peers \/ UNCHANGED vars PROVE LateInv'
  BY <1>6, PeersEffect DEF process, vars
<1>7. ASSUME Interrupt PROVE LateInv'
  BY <1>7, InterruptEffect DEF Cut
<1> QED
  BY <1>1, <1>2, <1>3, <1>4, <1>5, <1>6, <1>7, StepKinds

-----------------------------------------------------------------------------
(* Connections *)

LEMMA PeerFacts ==
    ASSUME NEW p \in PeerRecord
    PROVE  /\ \A v \in {"new", "queued", "open", "closed"} : [p EXCEPT !.st = v] \in PeerRecord
           /\ [p EXCEPT !.sent = p.sent + 1] \in PeerRecord
           /\ [p EXCEPT !.hung = TRUE] \in PeerRecord
           /\ \A v \in BOOLEAN : [p EXCEPT !.asked = v] \in PeerRecord
           /\ \A v \in Nat : [p EXCEPT !.answers = v] \in PeerRecord
           /\ \A v \in Cuts : [p EXCEPT !.cut = v] \in PeerRecord
           /\ \A r \in Requests, d \in BOOLEAN :
                 [p EXCEPT !.st = "queued", !.req = r, !.deaf = d] \in PeerRecord
<1> USE DEF PeerRecord
<1>1. \A v \in {"new", "queued", "open", "closed"} : [p EXCEPT !.st = v] \in PeerRecord
  OBVIOUS
<1>2. [p EXCEPT !.sent = p.sent + 1] \in PeerRecord
  OBVIOUS
<1>3. [p EXCEPT !.hung = TRUE] \in PeerRecord
  OBVIOUS
<1>4. \A v \in BOOLEAN : [p EXCEPT !.asked = v] \in PeerRecord
  OBVIOUS
<1>5. \A v \in Nat : [p EXCEPT !.answers = v] \in PeerRecord
  OBVIOUS
<1>6. \A v \in Cuts : [p EXCEPT !.cut = v] \in PeerRecord
  OBVIOUS
<1>7. \A r \in Requests, d \in BOOLEAN :
         [p EXCEPT !.st = "queued", !.req = r, !.deaf = d] \in PeerRecord
  OBVIOUS
<1> QED
  BY <1>1, <1>2, <1>3, <1>4, <1>5, <1>6, <1>7

LEMMA NewPeerType == NewPeer \in PeerRecord /\ Untold(NewPeer) /\ NewPeer.sent = 0
BY DEF NewPeer, PeerRecord, Requests, Asks, Untold, Cuts

LEMMA ClosedFacts ==
    ASSUME NEW p \in PeerRecord
    PROVE  /\ Closed(p) \in PeerRecord
           /\ Closed(p).st = "closed" /\ Closed(p).asked = p.asked /\ Closed(p).hung = p.hung
           /\ Closed(p).answers = p.answers /\ Closed(p).cut = p.cut
           /\ Closed(p).req = NewPeer.req /\ Closed(p).sent = 0
<1>1. ASSUME NEW q \in PeerRecord
      PROVE  LET k == [q EXCEPT !.st = "closed", !.hung = p.hung, !.asked = p.asked,
                                !.answers = p.answers, !.cut = p.cut]
             IN  /\ k \in PeerRecord
                 /\ k.st = "closed" /\ k.asked = p.asked /\ k.hung = p.hung
                 /\ k.answers = p.answers /\ k.cut = p.cut
                 /\ k.req = q.req /\ k.sent = q.sent
  BY <1>1 DEF PeerRecord
<1> QED
  BY <1>1, NewPeerType DEF Closed

\* One connection changes.
LEMMA OnePeer ==
    ASSUME peer \in [Conns -> PeerRecord], NEW c \in Conns, NEW p \in PeerRecord,
           peer' = [peer EXCEPT ![c] = p]
    PROVE  /\ peer' \in [Conns -> PeerRecord]
           /\ peer'[c] = p /\ \A d \in Conns : d # c => peer'[d] = peer[d]
OBVIOUS

LEMMA CloseListenerEffect ==
    ASSUME TypeOK, ShapeInv, CloseListener
    PROVE  /\ peer' \in [Conns -> PeerRecord]
           /\ \A c \in Conns :
                 peer'[c] = IF peer[c].st = "queued"
                            THEN Closed([peer[c] EXCEPT !.cut = "listener"]) ELSE peer[c]
<1>1. \A c \in Conns : /\ peer[c] \in PeerRecord
                       /\ Closed([peer[c] EXCEPT !.cut = "listener"]) \in PeerRecord
  BY PeerFacts, ClosedFacts DEF ShapeInv, Cuts
<1> QED
  BY <1>1 DEF CloseListener

\* What a step may do to the connection served, and to no other.
OnlyCur == \A d \in Conns : d # cur => peer'[d] = peer[d]
SameFields(p, q) ==
    p.st = q.st /\ p.req = q.req /\ p.sent = q.sent /\ p.deaf = q.deaf

LEMMA CurChange ==
    ASSUME peer \in [Conns -> PeerRecord], cur \in Conns
    PROVE  LET p == peer[cur]
               q == peer'[cur]
               Kept == peer' \in [Conns -> PeerRecord] /\ OnlyCur
           IN  /\ \A v \in BOOLEAN : peer' = [peer EXCEPT ![cur].asked = v] =>
                     /\ Kept /\ SameFields(q, p)
                     /\ q.hung = p.hung /\ q.answers = p.answers /\ q.cut = p.cut /\ q.asked = v
               /\ \A v \in {"throw", "ctrl_c", "slip"} : peer' = [peer EXCEPT ![cur].cut = v] =>
                     /\ Kept /\ SameFields(q, p)
                     /\ q.hung = p.hung /\ q.answers = p.answers /\ q.asked = p.asked /\ q.cut = v
               /\ \A v \in {0, 1} : peer' = [peer EXCEPT ![cur].answers = @ + v] =>
                     /\ Kept /\ SameFields(q, p)
                     /\ q.hung = p.hung /\ q.cut = p.cut /\ q.asked = p.asked
                     /\ q.answers = p.answers + v
               /\ peer' = [peer EXCEPT ![cur].hung = TRUE] =>
                     /\ Kept /\ SameFields(q, p)
                     /\ q.answers = p.answers /\ q.cut = p.cut /\ q.asked = p.asked /\ q.hung
               /\ peer' = [peer EXCEPT ![cur].sent = @ + 1] =>
                     /\ Kept /\ q.st = p.st /\ q.req = p.req /\ q.sent = p.sent + 1
                     /\ q.hung = p.hung
                     /\ q.answers = p.answers /\ q.cut = p.cut /\ q.asked = p.asked
<1>1. peer[cur] \in PeerRecord
  OBVIOUS
<1> USE DEF OnlyCur, SameFields, PeerRecord
<1>2. ASSUME NEW v \in BOOLEAN, peer' = [peer EXCEPT ![cur].asked = v]
      PROVE  /\ peer' \in [Conns -> PeerRecord] /\ OnlyCur /\ SameFields(peer'[cur], peer[cur])
             /\ peer'[cur].hung = peer[cur].hung /\ peer'[cur].answers = peer[cur].answers
             /\ peer'[cur].cut = peer[cur].cut /\ peer'[cur].asked = v
  BY <1>1, <1>2
<1>3. ASSUME NEW v \in {"throw", "ctrl_c", "slip"}, peer' = [peer EXCEPT ![cur].cut = v]
      PROVE  /\ peer' \in [Conns -> PeerRecord] /\ OnlyCur /\ SameFields(peer'[cur], peer[cur])
             /\ peer'[cur].hung = peer[cur].hung /\ peer'[cur].answers = peer[cur].answers
             /\ peer'[cur].asked = peer[cur].asked /\ peer'[cur].cut = v
  BY <1>1, <1>3 DEF Cuts
<1>4. ASSUME NEW v \in {0, 1}, peer' = [peer EXCEPT ![cur].answers = @ + v]
      PROVE  /\ peer' \in [Conns -> PeerRecord] /\ OnlyCur /\ SameFields(peer'[cur], peer[cur])
             /\ peer'[cur].hung = peer[cur].hung /\ peer'[cur].cut = peer[cur].cut
             /\ peer'[cur].asked = peer[cur].asked
             /\ peer'[cur].answers = peer[cur].answers + v
  BY <1>1, <1>4
<1>5. ASSUME peer' = [peer EXCEPT ![cur].hung = TRUE]
      PROVE  /\ peer' \in [Conns -> PeerRecord] /\ OnlyCur /\ SameFields(peer'[cur], peer[cur])
             /\ peer'[cur].answers = peer[cur].answers /\ peer'[cur].cut = peer[cur].cut
             /\ peer'[cur].asked = peer[cur].asked /\ peer'[cur].hung
  BY <1>1, <1>5
<1>6. ASSUME peer' = [peer EXCEPT ![cur].sent = @ + 1]
      PROVE  /\ peer' \in [Conns -> PeerRecord] /\ OnlyCur
             /\ peer'[cur].st = peer[cur].st /\ peer'[cur].req = peer[cur].req
             /\ peer'[cur].sent = peer[cur].sent + 1 /\ peer'[cur].hung = peer[cur].hung
             /\ peer'[cur].answers = peer[cur].answers /\ peer'[cur].cut = peer[cur].cut
             /\ peer'[cur].asked = peer[cur].asked
  BY <1>1, <1>6
<1> HIDE DEF OnlyCur, SameFields, PeerRecord
<1> QED
  BY <1>2, <1>3, <1>4, <1>5, <1>6

LEMMA WritePeer ==
    ASSUME TypeOK, ShapeInv, Write
    PROVE  \E v \in {0, 1} : /\ peer' = [peer EXCEPT ![cur].answers = @ + v]
                             /\ v = 0 => peer[cur].hung
<1>1. CASE peer[cur].hung
  <2>1. peer' = [peer EXCEPT ![cur].answers = @ + 0]
    BY <1>1 DEF Write
  <2> QED
    BY <1>1, <2>1
<1>2. CASE ~peer[cur].hung
  <2>1. peer' = [peer EXCEPT ![cur].answers = @ + 1]
    BY <1>2 DEF Write
  <2> QED
    BY <2>1
<1> QED
  BY <1>1, <1>2

\* The steps that leave the set of connections, and who is served, alone.
LEMMA CurEffect ==
    ASSUME TypeOK, ShapeInv, Inner \/ Interrupt \/ PeerSends \/ PeerFallsSilent \/ PeerHangsUp
    PROVE  /\ peer' \in [Conns -> PeerRecord] /\ OnlyCur /\ UNCHANGED <<cur, queue>>
           /\ cur \in Conns =>
                 /\ peer'[cur].st = peer[cur].st /\ peer'[cur].req = peer[cur].req
                 /\ peer'[cur].cut \in {peer[cur].cut, "throw", "ctrl_c"}
                 /\ \/ peer'[cur].sent = peer[cur].sent
                    \/ /\ peer[cur].sent < Req.head + Req.body
                       /\ peer'[cur].sent = peer[cur].sent + 1
<1>a. peer \in [Conns -> PeerRecord]
  BY DEF ShapeInv
<1>1. CASE ReadHead \/ ReadNothing \/ ReadBody
  BY <1>a, <1>1, ReadEffect DEF OnlyCur
<1>2. CASE Dispatch
  <2>1. cur \in Conns
    BY <1>2, CurPeer DEF Dispatch, Serving
  <2>2. peer' = [peer EXCEPT ![cur].asked = (pc' # "close")] /\ UNCHANGED <<cur, queue>>
    BY <1>2, DispatchEffect
  <2>3. (pc' # "close") \in BOOLEAN
    OBVIOUS
  <2> QED
    BY <1>a, <2>1, <2>2, <2>3, CurChange DEF SameFields
<1>3. CASE RouteEnds
  <2>1. cur \in Conns
    BY <1>3, CurPeer DEF RouteEnds, Serving
  <2>2. UNCHANGED <<cur, queue>>
    BY <1>3, RouteEndsEffect DEF request
  <2>3. peer' = peer \/ peer' = [peer EXCEPT ![cur].cut = "throw"]
    BY <1>3, RouteEndsEffect
  <2> QED
    BY <1>a, <2>1, <2>2, <2>3, CurChange DEF SameFields, OnlyCur
<1>4. CASE Write
  <2>1. cur \in Conns
    BY <1>4, CurPeer DEF Write, Serving
  <2>2. UNCHANGED <<cur, queue>>
    BY <1>4 DEF Write, request
  <2>3. PICK v \in {0, 1} : peer' = [peer EXCEPT ![cur].answers = @ + v]
    BY <1>4, WritePeer
  <2> QED
    BY <1>a, <2>1, <2>2, <2>3, CurChange DEF SameFields
<1>5. CASE PeerSends
  <2>1. cur \in Conns
    BY <1>5 DEF PeerSends, TypeOK
  <2> QED
    BY <1>a, <1>5, <2>1, CurChange DEF PeerSends
<1>8. CASE PeerFallsSilent
  BY <1>a, <1>8 DEF PeerFallsSilent, OnlyCur
<1>6. CASE PeerHangsUp
  <2>1. cur \in Conns
    BY <1>6 DEF PeerHangsUp, TypeOK
  <2> QED
    BY <1>a, <1>6, <2>1, CurChange DEF PeerHangsUp, request, SameFields
<1>7. CASE Interrupt
  <2>1. UNCHANGED <<cur, queue>>
    BY <1>7, InterruptEffect DEF request
  <2>2. peer' = peer \/ (pc \in Serving /\ peer' = [peer EXCEPT ![cur].cut = "ctrl_c"])
    BY <1>7, InterruptEffect DEF Cut, Serving, Reading
  <2>3. pc \in Serving => cur \in Conns
    BY CurPeer
  <2> QED
    BY <1>a, <2>1, <2>2, <2>3, CurChange DEF SameFields, OnlyCur
<1> QED
  BY <1>1, <1>2, <1>3, <1>4, <1>5, <1>6, <1>7, <1>8 DEF Inner

\* A route's value is turned into a response, or nobody serves its connection
\* any more.
LEMMA ResultEffect ==
    ASSUME TypeOK, ShapeInv, Result
    PROVE  /\ peer' \in [Conns -> PeerRecord] /\ OnlyCur /\ queue' = queue /\ cur \in Conns
           /\ SameFields(peer'[cur], peer[cur]) /\ (cur' = cur \/ cur' = NoConn)
<1>1. cur \in Conns
  BY CurPeer DEF Result, Serving
<1>2. /\ queue' = queue /\ (cur' = cur \/ cur' = NoConn)
      /\ peer' = peer \/ peer' = [peer EXCEPT ![cur].cut = "slip"]
  BY DEF Result
<1> QED
  BY <1>1, <1>2, CurChange DEF ShapeInv, OnlyCur, SameFields

\* A connection is accepted, made or closed.
LEMMA AcceptEffect ==
    ASSUME TypeOK, ShapeInv, Accept
    PROVE  /\ queue # <<>> /\ cur' = Head(queue) /\ cur' \in Conns /\ queue' = Tail(queue)
           /\ peer' \in [Conns -> PeerRecord]
           /\ \A d \in Conns : d # cur' => peer'[d] = peer[d]
           /\ peer'[cur'] = [peer[cur'] EXCEPT !.st = "open"]
<1>1. queue # <<>> /\ cur' = Head(queue) /\ queue' = Tail(queue)
  BY DEF Accept
<1>2. Head(queue) \in Conns
  BY <1>1 DEF TypeOK
<1>3. PICK c \in Conns : c = Head(queue)
  BY <1>2
<1>4. peer' = [peer EXCEPT ![c] = [peer[c] EXCEPT !.st = "open"]]
  BY <1>1, <1>3 DEF Accept
<1>5. [peer[c] EXCEPT !.st = "open"] \in PeerRecord
  BY PeerFacts DEF ShapeInv
<1> QED
  BY <1>1, <1>3, <1>4, <1>5, OnePeer DEF ShapeInv

LEMMA ConnectEffect ==
    ASSUME TypeOK, ShapeInv, PeerConnects
    PROVE  /\ UNCHANGED <<pc, process, request>> /\ Len(queue) < Backlog
           /\ peer' \in [Conns -> PeerRecord]
           /\ \E c \in Conns, r \in Requests, d \in BOOLEAN :
                 /\ peer[c].st = "new" /\ queue' = Append(queue, c)
                 /\ \A e \in Conns : e # c => peer'[e] = peer[e]
                 /\ peer'[c] = [peer[c] EXCEPT !.st = "queued", !.req = r, !.deaf = d]
<1>1. PICK c \in Conns, r \in Requests, d \in BOOLEAN :
         /\ peer[c].st = "new" /\ Len(queue) < Backlog
         /\ peer' = [peer EXCEPT ![c].st = "queued", ![c].req = r, ![c].deaf = d]
         /\ queue' = Append(queue, c)
         /\ UNCHANGED <<pc, process, request>>
  BY DEF PeerConnects
<1>2. peer' = [peer EXCEPT ![c] = [peer[c] EXCEPT !.st = "queued", !.req = r, !.deaf = d]]
  <2> DEFINE one == [peer EXCEPT ![c].st = "queued"]
             two == [one EXCEPT ![c].req = r]
             all == [two EXCEPT ![c].deaf = d]
  <2>1. peer' = all
    BY <1>1
  <2>2. peer \in [Conns -> PeerRecord]
    BY DEF ShapeInv
  <2>3. one = [peer EXCEPT ![c] = [peer[c] EXCEPT !.st = "queued"]]
    OBVIOUS
  <2>4. one[c] = [peer[c] EXCEPT !.st = "queued"]
    BY <2>2, <2>3
  <2>5. two = [peer EXCEPT ![c] = [peer[c] EXCEPT !.st = "queued", !.req = r]]
    BY <2>2, <2>3, <2>4
  <2>6. two[c] = [peer[c] EXCEPT !.st = "queued", !.req = r]
    BY <2>2, <2>5
  <2>7. all = [peer EXCEPT ![c] = [peer[c] EXCEPT !.st = "queued", !.req = r, !.deaf = d]]
    BY <2>2, <2>5, <2>6
  <2> QED
    BY <2>1, <2>7
<1>3. [peer[c] EXCEPT !.st = "queued", !.req = r, !.deaf = d] \in PeerRecord
  BY PeerFacts DEF ShapeInv
<1>4. PICK p \in PeerRecord : p = [peer[c] EXCEPT !.st = "queued", !.req = r, !.deaf = d]
  BY <1>3
<1>5. /\ peer' \in [Conns -> PeerRecord]
      /\ \A e \in Conns : e # c => peer'[e] = peer[e]
      /\ peer'[c] = p
  <2>1. peer' = [peer EXCEPT ![c] = p]
    BY <1>2, <1>4
  <2> QED
    BY <2>1, OnePeer DEF ShapeInv
<1>6. /\ peer[c].st = "new" /\ queue' = Append(queue, c)
      /\ \A e \in Conns : e # c => peer'[e] = peer[e]
      /\ peer'[c] = [peer[c] EXCEPT !.st = "queued", !.req = r, !.deaf = d]
  BY <1>1, <1>4, <1>5
<1> QED
  BY <1>1, <1>5, <1>6

LEMMA CloseEffect ==
    ASSUME TypeOK, ShapeInv, Close
    PROVE  /\ pc = "close" /\ pc' = "check" /\ cur \in Conns /\ cur' = NoConn
           /\ queue' = queue /\ peer' \in [Conns -> PeerRecord] /\ OnlyCur
           /\ peer'[cur] = Closed(peer[cur])
<1>1. cur \in Conns
  BY CurPeer DEF Close, Serving
<1>2. Closed(peer[cur]) \in PeerRecord
  BY <1>1, ClosedFacts DEF ShapeInv
<1>3. peer' = [peer EXCEPT ![cur] = Closed(peer[cur])]
  BY DEF Close
<1> QED
  BY <1>1, <1>2, <1>3, OnePeer DEF Close, ShapeInv, OnlyCur

\* The other steps of the thread.
Idle == \/ Call \/ ClearStop \/ ArmInt \/ ArmPipe \/ RestoreInt \/ RestorePipe
        \/ Check \/ AcceptFails

LEMMA IdleEffect ==
    ASSUME Idle
    PROVE  UNCHANGED <<request, peer, queue>> /\ pc \notin Serving /\ pc' \notin Serving
BY DEF Idle, Call, ClearStop, ArmInt, ArmPipe, RestoreInt, RestorePipe, Check, AcceptFails, Serving,
       Reading

LEMMA StepGroups ==
    ASSUME [Next]_vars
    PROVE  \/ Idle \/ Inner \/ Interrupt \/ PeerSends \/ PeerFallsSilent \/ PeerHangsUp \/ PeerConnects
           \/ CloseListener \/ Accept \/ Result \/ Close \/ UNCHANGED vars
BY StepKinds DEF Edge, Peers, Idle

-----------------------------------------------------------------------------
(* The queue *)

LEMMA QueueStep ==
    ASSUME TypeOK, ShapeInv, QueueInv, PeerInv, [Next]_vars
    PROVE  QueueInv'
<1>a. queue \in Seq(Conns)
  BY DEF TypeOK
<1>b. cur \in Conns \cup {NoConn}
  BY DEF TypeOK
<1>1. ASSUME UNCHANGED queue, cur' = cur \/ cur' = NoConn,
             \A c \in Conns : peer'[c].st = peer[c].st
      PROVE  QueueInv'
  <2>1. \A i \in DOMAIN queue : queue[i] \in Conns
    BY <1>a
  <2> QED
    BY <1>1, <1>b, <2>1 DEF QueueInv
<1>2. CASE Idle \/ UNCHANGED vars
  BY <1>1, <1>2, IdleEffect DEF request, vars
<1>3. CASE Inner \/ Interrupt \/ PeerSends \/ PeerFallsSilent \/ PeerHangsUp
  <2>1. UNCHANGED <<cur, queue>> /\ OnlyCur /\ (cur \in Conns => peer'[cur].st = peer[cur].st)
    BY <1>3, CurEffect
  <2> QED
    BY <1>1, <2>1 DEF OnlyCur
<1>4. CASE Result
  <2>1. \A c \in Conns : peer'[c].st = peer[c].st
    BY <1>4, ResultEffect DEF OnlyCur, SameFields
  <2> QED
    BY <1>1, <1>4, <2>1, ResultEffect
<1>5. CASE PeerConnects
  <2>1. PICK c \in Conns, r \in Requests, d \in BOOLEAN :
           /\ peer[c].st = "new" /\ queue' = Append(queue, c)
           /\ \A e \in Conns : e # c => peer'[e] = peer[e]
           /\ peer'[c] = [peer[c] EXCEPT !.st = "queued", !.req = r, !.deaf = d]
    BY <1>5, ConnectEffect
  <2>2. peer'[c].st = "queued"
    BY <2>1 DEF ShapeInv, PeerRecord
  <2>3. \A i \in DOMAIN queue : queue[i] \in Conns /\ queue[i] # c
    BY <1>a, <2>1 DEF QueueInv
  <2>4. /\ DOMAIN queue' = DOMAIN queue \cup {Len(queue) + 1}
        /\ Len(queue) + 1 \notin DOMAIN queue
        /\ queue'[Len(queue) + 1] = c
        /\ \A i \in DOMAIN queue : queue'[i] = queue[i]
    BY <1>a, <2>1
  <2>5. cur' = cur
    BY <1>5 DEF PeerConnects, request
  <2>6. cur # c
    BY <2>1, BoundsAssumption DEF QueueInv
  <2>7. \A e \in Conns : e # c => peer'[e].st = peer[e].st
    BY <2>1
  <2>8. \A i \in DOMAIN queue' : peer'[queue'[i]].st = "queued"
    BY <2>2, <2>3, <2>4, <2>7 DEF QueueInv
  <2>9. \A i, j \in DOMAIN queue' : queue'[i] = queue'[j] => i = j
    BY <2>3, <2>4 DEF QueueInv
  <2>10. cur' # NoConn => peer'[cur'].st = "open"
    BY <1>b, <2>5, <2>6, <2>7 DEF QueueInv
  <2> QED
    BY <2>8, <2>9, <2>10 DEF QueueInv
<1>6. CASE Accept
  <2>1. /\ queue # <<>> /\ cur' = Head(queue) /\ cur' \in Conns /\ queue' = Tail(queue)
        /\ \A d \in Conns : d # cur' => peer'[d] = peer[d]
        /\ peer'[cur'] = [peer[cur'] EXCEPT !.st = "open"]
    BY <1>6, AcceptEffect
  <2>2. peer'[cur'].st = "open"
    BY <2>1 DEF ShapeInv, PeerRecord
  <2>3. \A i \in DOMAIN queue' : /\ i + 1 \in DOMAIN queue /\ queue'[i] = queue[i + 1]
                                 /\ i \in Nat /\ i + 1 # 1
    BY <1>a, <2>1
  <2>4. cur' = queue[1] /\ 1 \in DOMAIN queue
    BY <1>a, <2>1
  <2>5. \A i \in DOMAIN queue' : queue'[i] # cur' /\ queue'[i] \in Conns
    BY <1>a, <2>3, <2>4 DEF QueueInv
  <2>6. \A i \in DOMAIN queue' : peer'[queue'[i]].st = "queued"
    BY <2>1, <2>3, <2>5 DEF QueueInv
  <2>7. ASSUME NEW i \in DOMAIN queue', NEW j \in DOMAIN queue', queue'[i] = queue'[j]
        PROVE  i = j
    <3>1. i + 1 = j + 1
      BY <2>3, <2>7 DEF QueueInv
    <3> QED
      BY <2>3, <3>1
  <2> QED
    BY <2>2, <2>6, <2>7 DEF QueueInv
<1>7. CASE Close
  <2>1. cur \in Conns /\ cur' = NoConn /\ queue' = queue /\ OnlyCur
    BY <1>7, CloseEffect
  <2>2. peer[cur].st = "open"
    BY <2>1, BoundsAssumption DEF QueueInv
  <2>3. \A i \in DOMAIN queue : queue[i] \in Conns /\ queue[i] # cur
    BY <1>a, <2>2 DEF QueueInv
  <2> QED
    BY <2>1, <2>3 DEF QueueInv, OnlyCur
<1>8. CASE CloseListener
  <2>1. queue' = <<>> /\ cur' = cur /\ cur = NoConn
    BY <1>8 DEF CloseListener, request, TypeOK, Serving, Reading
  <2> QED
    BY <2>1 DEF QueueInv
<1> QED
  BY <1>2, <1>3, <1>4, <1>5, <1>6, <1>7, <1>8, StepGroups

-----------------------------------------------------------------------------
(* Requests and answers *)

LEMMA PeerStep ==
    ASSUME TypeOK, ShapeInv, QueueInv, PeerInv, [Next]_vars
    PROVE  PeerInv'
<1>a. peer \in [Conns -> PeerRecord] /\ cur \in Conns \cup {NoConn} /\ NoConn \notin Conns
  BY BoundsAssumption DEF ShapeInv, TypeOK
<1>b. cur = NoConn <=> pc \notin Serving
  BY DEF TypeOK
<1>c. cur \in Conns => peer[cur].st = "open"
  BY <1>a DEF QueueInv
<1> USE DEF Serving, Reading
\* It is enough to look at the connection that is served.
<1>1. ASSUME cur \in Conns, UNCHANGED cur, OnlyCur, peer'[cur].st = "open",
             pc' \in Reading \cup {"dispatch"} => Untold(peer'[cur]),
             pc' \in {"route", "result", "write"} => peer'[cur].asked /\ peer'[cur].answers = 0,
             pc' = "close" => Settled(peer'[cur])
      PROVE  PeerInv'
  <2> SUFFICES ASSUME NEW c \in Conns PROVE PeerGood(c)'
    BY DEF PeerInv
  <2>1. CASE c = cur
    BY <1>1, <2>1 DEF PeerGood
  <2>2. CASE c # cur
    <3>1. peer'[c] = peer[c] /\ cur' = cur
      BY <1>1, <2>2 DEF OnlyCur
    <3> QED
      BY <2>2, <3>1 DEF PeerInv, PeerGood, Untold, Settled, NewPeer
  <2> QED
    BY <2>1, <2>2
<1>2. CASE Idle \/ UNCHANGED vars
  <2>1. UNCHANGED <<peer, cur>> /\ (UNCHANGED pc \/ (pc \notin Serving /\ pc' \notin Serving))
    BY <1>2, IdleEffect DEF request, vars
  <2> QED
    BY <1>a, <1>b, <2>1 DEF PeerInv, PeerGood, Untold, Settled, NewPeer
<1>3. CASE ReadHead \/ ReadNothing \/ ReadBody
  <2>1. pc \in Reading /\ pc' \in Reading \cup {"dispatch", "close"} /\ UNCHANGED <<cur, peer>>
    BY <1>3, ReadEffect
  <2>2. cur \in Conns /\ Untold(peer[cur]) /\ Untold(peer'[cur]) /\ OnlyCur
    BY <1>a, <1>b, <2>1 DEF PeerInv, PeerGood, OnlyCur
  <2>3. Settled(peer'[cur])
    BY <1>a, <2>1, <2>2 DEF Untold, Settled
  <2> QED
    BY <1>1, <1>c, <2>1, <2>2, <2>3
<1>4. CASE Dispatch
  <2>1. /\ pc = "dispatch" /\ pc' \in {"close", "write", "route"} /\ UNCHANGED cur
        /\ peer' = [peer EXCEPT ![cur].asked = (pc' # "close")]
    BY <1>4, DispatchEffect
  <2>2. cur \in Conns /\ Untold(peer[cur])
    BY <1>a, <1>b, <2>1 DEF PeerInv, PeerGood
  <2>3. (pc' # "close") \in BOOLEAN
    OBVIOUS
  <2>4. /\ OnlyCur /\ peer'[cur].st = "open" /\ peer'[cur].answers = 0
        /\ peer'[cur].asked = (pc' # "close")
    BY <1>a, <1>c, <2>1, <2>2, <2>3, CurChange DEF SameFields, Untold
  <2>5. CASE pc' = "close"
    <3>1. peer'[cur].asked = FALSE
      BY <2>4, <2>5
    <3>2. Settled(peer'[cur])
      BY <2>4, <3>1 DEF Settled
    <3> QED
      BY <1>1, <2>1, <2>2, <2>4, <2>5, <3>2
  <2>6. CASE pc' # "close"
    <3>1. peer'[cur].asked = TRUE
      BY <2>4, <2>6
    <3> QED
      BY <1>1, <2>1, <2>2, <2>4, <2>6, <3>1
  <2> QED
    BY <2>5, <2>6
<1>5. CASE RouteEnds
  <2>1. pc = "route" /\ UNCHANGED cur
    BY <1>5, RouteEndsEffect DEF request
  <2>2. cur \in Conns /\ peer[cur].asked /\ peer[cur].answers = 0
    BY <1>a, <1>b, <2>1 DEF PeerInv, PeerGood
  <2>3. CASE pc' \in {"write", "result"} /\ UNCHANGED peer
    BY <1>1, <1>c, <2>1, <2>2, <2>3 DEF OnlyCur
  <2>4. CASE pc' = "close" /\ peer' = [peer EXCEPT ![cur].cut = "throw"]
    <3>1. /\ OnlyCur /\ peer'[cur].st = "open" /\ peer'[cur].answers = 0
          /\ peer'[cur].cut = "throw"
      BY <1>a, <1>c, <2>2, <2>4, CurChange DEF SameFields
    <3> QED
      BY <1>1, <2>1, <2>2, <2>4, <3>1 DEF Settled
  <2> QED
    BY <1>5, <2>3, <2>4, RouteEndsEffect
<1>6. CASE Write
  <2>1. pc = "write" /\ pc' = "close" /\ UNCHANGED cur
    BY <1>6 DEF Write, request
  <2>2. cur \in Conns /\ peer[cur].asked /\ peer[cur].answers = 0
    BY <1>a, <1>b, <2>1 DEF PeerInv, PeerGood
  <2>3. PICK v \in {0, 1} : /\ peer' = [peer EXCEPT ![cur].answers = @ + v]
                            /\ v = 0 => peer[cur].hung
    BY <1>6, WritePeer
  <2>4. /\ OnlyCur /\ peer'[cur].st = "open" /\ peer'[cur].answers = v
        /\ peer'[cur].hung = peer[cur].hung /\ peer'[cur].asked = peer[cur].asked
    <3>1. /\ OnlyCur /\ SameFields(peer'[cur], peer[cur])
          /\ peer'[cur].answers = peer[cur].answers + v
          /\ peer'[cur].hung = peer[cur].hung /\ peer'[cur].asked = peer[cur].asked
      BY <1>a, <2>2, <2>3, CurChange
    <3> QED
      BY <1>c, <2>2, <3>1 DEF SameFields
  <2>5. Settled(peer'[cur])
    BY <2>2, <2>3, <2>4 DEF Settled
  <2> QED
    BY <1>1, <2>1, <2>2, <2>4, <2>5
<1>7. CASE PeerSends \/ PeerFallsSilent \/ PeerHangsUp
  <2>1. UNCHANGED <<pc, cur>> /\ cur \in Conns
    BY <1>a, <1>b, <1>7 DEF PeerSends, PeerFallsSilent, PeerHangsUp, request
  <2>2. PeerGood(cur)
    BY <2>1 DEF PeerInv
  <2>3. /\ OnlyCur /\ peer'[cur].st = "open" /\ peer'[cur].answers = peer[cur].answers
        /\ (peer'[cur].asked <=> peer[cur].asked) /\ peer'[cur].cut = peer[cur].cut
        /\ (peer'[cur].hung <=> peer[cur].hung) \/ peer'[cur].hung
    BY <1>a, <1>c, <1>7, <2>1, CurChange DEF SameFields, OnlyCur, PeerSends, PeerFallsSilent,
       PeerHangsUp
  <2> QED
    BY <1>1, <2>1, <2>2, <2>3 DEF PeerGood, Untold, Settled
<1>8. CASE Interrupt
  <2>1. UNCHANGED cur
    BY <1>8, InterruptEffect DEF request
  <2>2. CASE UNCHANGED <<pc, peer>>
    BY <2>1, <2>2 DEF PeerInv, PeerGood, Untold, Settled, NewPeer
  <2>3. CASE pc = "accept" /\ pc' = "check" /\ UNCHANGED peer
    BY <1>a, <1>b, <2>1, <2>3 DEF PeerInv, PeerGood, Untold, Settled, NewPeer
  <2>4. CASE Cut(pc, pc') /\ pc # "accept" /\ peer' = [peer EXCEPT ![cur].cut = "ctrl_c"]
    <3>1. cur \in Conns /\ PeerGood(cur)
      BY <1>a, <1>b, <2>4 DEF PeerInv, Cut
    <3>2. /\ OnlyCur /\ peer'[cur].st = "open" /\ peer'[cur].answers = peer[cur].answers
          /\ (peer'[cur].asked <=> peer[cur].asked) /\ peer'[cur].cut = "ctrl_c"
      BY <1>a, <1>c, <2>4, <3>1, CurChange DEF SameFields
    <3>3. pc' = "dispatch" => Untold(peer'[cur])
      BY <2>4, <3>1, <3>2 DEF Cut, PeerGood, Untold
    <3>4. Settled(peer'[cur])
      BY <2>4, <3>1, <3>2 DEF Cut, PeerGood, Untold, Settled
    <3> QED
      BY <1>1, <2>1, <2>4, <3>1, <3>2, <3>3, <3>4 DEF Cut
  <2> QED
    BY <1>8, <2>2, <2>3, <2>4, InterruptEffect DEF Cut
<1>9. CASE Result
  <2>1. /\ pc = "result"
        /\ \/ pc' = "write" /\ UNCHANGED <<cur, peer>>
           \/ /\ pc' = "caller" /\ cur' = NoConn
              /\ peer' = [peer EXCEPT ![cur].cut = "slip"]
    BY <1>9 DEF Result
  <2>2. cur \in Conns
    BY <1>a, <1>b, <2>1
  <2>3. CASE pc' = "write" /\ UNCHANGED <<cur, peer>>
    BY <1>a, <2>1, <2>2, <2>3 DEF PeerInv, PeerGood, Untold, Settled, NewPeer
  <2>4. CASE pc' = "caller" /\ cur' = NoConn /\ peer' = [peer EXCEPT ![cur].cut = "slip"]
    <3>1. OnlyCur /\ peer'[cur].st = "open" /\ peer'[cur].answers = peer[cur].answers
      BY <1>a, <1>c, <2>2, <2>4, CurChange DEF SameFields
    <3>2. peer[cur].answers = 0
      BY <2>1, <2>2 DEF PeerInv, PeerGood
    <3>3. PICK k \in Conns : k = cur
      BY <2>2
    <3>4. PeerGood(k)'
      BY <1>a, <2>4, <3>1, <3>2, <3>3 DEF PeerGood
    <3>5. \A e \in Conns : e # k => PeerGood(e)'
      BY <1>a, <2>1, <2>4, <3>1, <3>3 DEF OnlyCur, PeerInv, PeerGood, Untold, Settled, NewPeer
    <3> QED
      BY <3>4, <3>5 DEF PeerInv
  <2> QED
    BY <2>1, <2>3, <2>4
<1>10. CASE PeerConnects
  <2>1. UNCHANGED <<pc, cur>>
    BY <1>10 DEF PeerConnects, request
  <2>2. PICK c \in Conns, r \in Requests, d \in BOOLEAN :
           /\ peer[c].st = "new" /\ queue' = Append(queue, c)
           /\ \A e \in Conns : e # c => peer'[e] = peer[e]
           /\ peer'[c] = [peer[c] EXCEPT !.st = "queued", !.req = r, !.deaf = d]
    BY <1>10, ConnectEffect
  <2>3. c # cur /\ Untold(peer[c])
    BY <1>c, <2>2, NewPeerType DEF PeerInv, PeerGood
  <2>4. peer'[c].st = "queued" /\ Untold(peer'[c])
    BY <1>a, <2>2, <2>3 DEF PeerRecord, Untold
  <2>5. PeerGood(c)'
    BY <2>1, <2>3, <2>4 DEF PeerGood
  <2>6. \A e \in Conns : e # c => PeerGood(e)'
    BY <2>1, <2>2 DEF PeerInv, PeerGood, Untold, Settled, NewPeer
  <2> QED
    BY <2>5, <2>6 DEF PeerInv
<1>11. CASE Accept
  <2>1. /\ queue # <<>> /\ cur' = Head(queue) /\ cur' \in Conns
        /\ \A d \in Conns : d # cur' => peer'[d] = peer[d]
        /\ peer'[cur'] = [peer[cur'] EXCEPT !.st = "open"]
    BY <1>11, AcceptEffect
  <2>2. pc = "accept" /\ pc' = "head" /\ cur = NoConn
    BY <1>b, <1>11 DEF Accept
  <2>3. peer[cur'].st = "queued"
    BY <2>1 DEF QueueInv, TypeOK
  <2>4. Untold(peer[cur'])
    BY <2>1, <2>3 DEF PeerInv, PeerGood
  <2>5. peer'[cur'].st = "open" /\ Untold(peer'[cur'])
    BY <1>a, <2>1, <2>4 DEF PeerRecord, Untold
  <2>6. PICK k \in Conns : k = cur'
    BY <2>1
  <2>7. PeerGood(k)'
    BY <2>2, <2>5, <2>6 DEF PeerGood
  <2>8. \A e \in Conns : e # k => PeerGood(e)'
    BY <1>a, <2>1, <2>2, <2>6 DEF PeerInv, PeerGood, Untold, Settled, NewPeer
  <2> QED
    BY <2>7, <2>8 DEF PeerInv
<1>12. CASE Close
  <2>1. /\ pc = "close" /\ pc' = "check" /\ cur \in Conns /\ cur' = NoConn /\ OnlyCur
        /\ peer'[cur] = Closed(peer[cur])
    BY <1>12, CloseEffect
  <2>2. Settled(peer[cur])
    BY <2>1 DEF PeerInv, PeerGood
  <2>3. peer'[cur].st = "closed" /\ Settled(peer'[cur])
    BY <1>a, <2>1, <2>2, ClosedFacts DEF Settled
  <2>5. PICK k \in Conns : k = cur
    BY <2>1
  <2>6. PeerGood(k)'
    BY <1>a, <2>1, <2>3, <2>5 DEF PeerGood
  <2>7. \A e \in Conns : e # k => PeerGood(e)'
    BY <1>a, <2>1, <2>5 DEF OnlyCur, PeerInv, PeerGood, Untold, Settled, NewPeer
  <2> QED
    BY <2>6, <2>7 DEF PeerInv
<1>13. CASE CloseListener
  <2>1. /\ pc = "close_listener" /\ pc' = "caller" /\ cur' = NoConn /\ cur = NoConn
    BY <1>b, <1>13 DEF CloseListener, request
  <2>2. \A c \in Conns :
           peer'[c] = IF peer[c].st = "queued"
                      THEN Closed([peer[c] EXCEPT !.cut = "listener"]) ELSE peer[c]
    BY <1>13, CloseListenerEffect
  <2>3. ASSUME NEW c \in Conns, peer[c].st = "queued"
        PROVE  PeerGood(c)'
    <3>1. PICK p \in PeerRecord : p = [peer[c] EXCEPT !.cut = "listener"]
      BY <1>a, PeerFacts DEF Cuts
    <3>2. Untold(p)
      BY <1>a, <2>3, <3>1 DEF PeerInv, PeerGood, PeerRecord, Untold
    <3>3. peer'[c].st = "closed" /\ Untold(peer'[c])
      BY <2>2, <2>3, <3>1, <3>2, ClosedFacts DEF Untold
    <3> QED
      BY <1>a, <2>1, <3>3 DEF PeerGood, Untold, Settled
  <2>4. ASSUME NEW c \in Conns, peer[c].st # "queued"
        PROVE  PeerGood(c)'
    BY <1>a, <2>1, <2>2, <2>4 DEF PeerInv, PeerGood, Untold, Settled, NewPeer
  <2> QED
    BY <2>3, <2>4 DEF PeerInv
<1> QED
  BY <1>2, <1>3, <1>4, <1>5, <1>6, <1>7, <1>8, <1>9, <1>10, <1>11, <1>12, <1>13, StepGroups
  DEF Inner

LEMMA SlipStep ==
    ASSUME TypeOK, ShapeInv, QueueInv, PeerInv, SlipInv, [Next]_vars
    PROVE  SlipInv'
<1>a. peer \in [Conns -> PeerRecord] /\ cur \in Conns \cup {NoConn} /\ NoConn \notin Conns
  BY BoundsAssumption DEF ShapeInv, TypeOK
<1>b. cur = NoConn <=> pc \notin Serving
  BY DEF TypeOK
<1>c. cur \in Conns => peer[cur].st = "open" /\ peer[cur].cut # "slip"
  BY <1>a DEF QueueInv, SlipInv, SlipGood
<1>1. CASE Idle \/ UNCHANGED vars
  <2>1. UNCHANGED <<peer, cur>>
    BY <1>1, IdleEffect DEF request, vars
  <2> QED
    BY <2>1 DEF SlipInv, SlipGood
<1>2. CASE Inner \/ Interrupt \/ PeerSends \/ PeerFallsSilent \/ PeerHangsUp
  <2>1. /\ OnlyCur /\ UNCHANGED cur
        /\ cur \in Conns => /\ peer'[cur].st = peer[cur].st
                           /\ peer'[cur].cut \in {peer[cur].cut, "throw", "ctrl_c"}
    BY <1>2, CurEffect
  <2> QED
    BY <1>c, <2>1 DEF OnlyCur, SlipInv, SlipGood
<1>3. CASE Result
  <2>1. /\ pc = "result"
        /\ \/ UNCHANGED <<cur, peer>>
           \/ cur' = NoConn /\ peer' = [peer EXCEPT ![cur].cut = "slip"]
    BY <1>3 DEF Result
  <2>2. cur \in Conns
    BY <1>a, <1>b, <2>1 DEF Serving
  <2>3. CASE UNCHANGED <<cur, peer>>
    BY <2>3 DEF SlipInv, SlipGood
  <2>4. CASE cur' = NoConn /\ peer' = [peer EXCEPT ![cur].cut = "slip"]
    <3>1. OnlyCur /\ peer'[cur].st = "open" /\ peer'[cur].cut = "slip"
      BY <1>a, <1>c, <2>2, <2>4, CurChange DEF SameFields
    <3> QED
      BY <1>a, <2>4, <3>1 DEF OnlyCur, SlipInv, SlipGood
  <2> QED
    BY <2>1, <2>3, <2>4
<1>4. CASE PeerConnects
  <2>1. PICK c \in Conns, r \in Requests, d \in BOOLEAN :
           /\ peer[c].st = "new"
           /\ \A e \in Conns : e # c => peer'[e] = peer[e]
           /\ peer'[c] = [peer[c] EXCEPT !.st = "queued", !.req = r, !.deaf = d]
    BY <1>4, ConnectEffect
  <2>2. cur' = cur
    BY <1>4 DEF PeerConnects, request
  <2>3. peer[c].cut # "slip"
    BY <2>1 DEF SlipInv, SlipGood
  <2>4. peer'[c].cut = peer[c].cut /\ peer'[c].st = "queued"
    BY <1>a, <2>1 DEF PeerRecord
  <2>5. SlipGood(c)'
    BY <2>3, <2>4 DEF SlipGood
  <2>6. \A e \in Conns : e # c => SlipGood(e)'
    BY <2>1, <2>2 DEF SlipInv, SlipGood
  <2> QED
    BY <2>5, <2>6 DEF SlipInv
<1>5. CASE Accept
  <2>1. /\ queue # <<>> /\ cur' = Head(queue) /\ cur' \in Conns
        /\ \A d \in Conns : d # cur' => peer'[d] = peer[d]
        /\ peer'[cur'] = [peer[cur'] EXCEPT !.st = "open"]
    BY <1>5, AcceptEffect
  <2>2. cur = NoConn
    BY <1>b, <1>5 DEF Accept, Serving, Reading
  <2>3. PICK k \in Conns : k = cur'
    BY <2>1
  <2>4. peer[k].st = "queued"
    BY <2>1, <2>3 DEF QueueInv, TypeOK
  <2>5. peer'[k].cut = peer[k].cut /\ peer[k].cut # "slip"
    BY <1>a, <2>1, <2>3, <2>4 DEF PeerRecord, SlipInv, SlipGood
  <2>6. SlipGood(k)'
    BY <2>3, <2>5 DEF SlipGood
  <2>7. \A e \in Conns : e # k => SlipGood(e)'
    BY <1>a, <2>1, <2>2, <2>3 DEF SlipInv, SlipGood
  <2> QED
    BY <2>6, <2>7 DEF SlipInv
<1>6. CASE Close
  <2>1. cur \in Conns /\ cur' = NoConn /\ OnlyCur /\ peer'[cur] = Closed(peer[cur])
    BY <1>6, CloseEffect
  <2>2. peer'[cur].st = "closed" /\ peer'[cur].cut # "slip"
    BY <1>a, <1>c, <2>1, ClosedFacts
  <2> QED
    BY <1>a, <2>1, <2>2 DEF OnlyCur, SlipInv, SlipGood
<1>7. CASE CloseListener
  <2>1. cur' = NoConn /\ cur = NoConn
    BY <1>b, <1>7 DEF CloseListener, request, Serving, Reading
  <2>2. \A c \in Conns :
           peer'[c] = IF peer[c].st = "queued"
                      THEN Closed([peer[c] EXCEPT !.cut = "listener"]) ELSE peer[c]
    BY <1>7, CloseListenerEffect
  <2>3. ASSUME NEW c \in Conns, peer[c].st = "queued"
        PROVE  SlipGood(c)'
    <3>1. PICK p \in PeerRecord : p = [peer[c] EXCEPT !.cut = "listener"]
      BY <1>a, PeerFacts DEF Cuts
    <3>2. p.cut = "listener"
      BY <1>a, <3>1 DEF PeerRecord
    <3>3. peer'[c].st = "closed" /\ peer'[c].cut = "listener"
      BY <2>2, <2>3, <3>1, <3>2, ClosedFacts
    <3> QED
      BY <3>3 DEF SlipGood
  <2>4. ASSUME NEW c \in Conns, peer[c].st # "queued"
        PROVE  SlipGood(c)'
    BY <2>1, <2>2, <2>4 DEF SlipInv, SlipGood
  <2> QED
    BY <2>3, <2>4 DEF SlipInv
<1> QED
  BY <1>1, <1>2, <1>3, <1>4, <1>5, <1>6, <1>7, StepGroups

-----------------------------------------------------------------------------
(* Types *)

LEMMA PeerTypeStep ==
    ASSUME TypeOK, ShapeInv, PeerInv, [Next]_vars
    PROVE  /\ peer' \in [Conns -> PeerRecord]
           /\ \A c \in Conns : peer'[c].sent <= peer'[c].req.head + peer'[c].req.body
<1>a. /\ peer \in [Conns -> PeerRecord] /\ cur \in Conns \cup {NoConn}
      /\ \A c \in Conns : peer[c].sent <= peer[c].req.head + peer[c].req.body
  <2>1. \A c \in Conns : peer[c].req.head + peer[c].req.body \in Nat
    BY BoundsAssumption DEF ShapeInv, PeerRecord, Requests
  <2> QED
    BY <2>1 DEF TypeOK, ShapeInv
<1>b. \A r \in Requests : r.head \in Nat /\ r.body \in Nat
  BY BoundsAssumption DEF Requests
<1>1. CASE Idle \/ UNCHANGED vars
  BY <1>a, <1>1, IdleEffect DEF vars
<1>7. CASE Result
  BY <1>a, <1>7, ResultEffect DEF OnlyCur, SameFields
<1>2. CASE Inner \/ Interrupt \/ PeerSends \/ PeerFallsSilent \/ PeerHangsUp
  <2>1. peer' \in [Conns -> PeerRecord] /\ OnlyCur
    BY <1>2, CurEffect
  <2>2. ASSUME cur \in Conns
        PROVE  peer'[cur].sent <= peer'[cur].req.head + peer'[cur].req.body
    <3>1. /\ peer'[cur].req = peer[cur].req
          /\ \/ peer'[cur].sent = peer[cur].sent
             \/ /\ peer[cur].sent < peer[cur].req.head + peer[cur].req.body
                /\ peer'[cur].sent = peer[cur].sent + 1
      BY <1>2, <2>2, CurEffect DEF Req
    <3>2. peer[cur].sent \in Nat /\ peer[cur].req \in Requests
      BY <1>a, <2>2 DEF PeerRecord
    <3> QED
      BY <1>a, <1>b, <2>2, <3>1, <3>2
  <2> QED
    BY <1>a, <2>1, <2>2 DEF OnlyCur
<1>3. CASE PeerConnects
  <2>1. PICK c \in Conns, r \in Requests, d \in BOOLEAN :
           /\ \A e \in Conns : e # c => peer'[e] = peer[e]
           /\ peer'[c] = [peer[c] EXCEPT !.st = "queued", !.req = r, !.deaf = d]
           /\ peer[c].st = "new"
    BY <1>3, ConnectEffect
  <2>2. peer[c].sent = 0
    BY <2>1, NewPeerType DEF PeerInv, PeerGood
  <2>3. peer'[c].sent = 0 /\ peer'[c].req = r
    BY <1>a, <2>1, <2>2 DEF PeerRecord
  <2>4. peer'[c].sent <= peer'[c].req.head + peer'[c].req.body
    BY <1>b, <2>3
  <2>5. peer' \in [Conns -> PeerRecord]
    BY <1>3, ConnectEffect
  <2> QED
    BY <1>a, <2>1, <2>4, <2>5
<1>4. CASE Accept
  <2>1. /\ cur' \in Conns /\ peer' \in [Conns -> PeerRecord]
        /\ \A d \in Conns : d # cur' => peer'[d] = peer[d]
        /\ peer'[cur'] = [peer[cur'] EXCEPT !.st = "open"]
    BY <1>4, AcceptEffect
  <2>2. peer'[cur'].sent = peer[cur'].sent /\ peer'[cur'].req = peer[cur'].req
    BY <1>a, <2>1 DEF PeerRecord
  <2> QED
    BY <1>a, <2>1, <2>2
<1>c. \A p \in PeerRecord : Closed(p).sent <= Closed(p).req.head + Closed(p).req.body
  BY <1>b, ClosedFacts DEF PeerRecord
<1>5. CASE Close
  BY <1>a, <1>c, <1>5, CloseEffect DEF OnlyCur
<1>6. CASE CloseListener
  <2>1. \A c \in Conns : [peer[c] EXCEPT !.cut = "listener"] \in PeerRecord
    BY <1>a, PeerFacts DEF Cuts
  <2> QED
    BY <1>a, <1>c, <1>6, <2>1, CloseListenerEffect
<1> QED
  BY <1>1, <1>2, <1>3, <1>4, <1>5, <1>6, <1>7, StepGroups

LEMMA QueueTypeStep ==
    ASSUME TypeOK, ShapeInv, [Next]_vars
    PROVE  queue' \in Seq(Conns) /\ Len(queue') <= Backlog
<1>a. queue \in Seq(Conns) /\ Len(queue) <= Backlog /\ Backlog \in Nat
  BY BoundsAssumption DEF TypeOK
<1>1. CASE Idle \/ Result \/ Close \/ UNCHANGED vars
  BY <1>a, <1>1, IdleEffect, CloseEffect DEF Result, vars
<1>2. CASE Inner \/ Interrupt \/ PeerSends \/ PeerFallsSilent \/ PeerHangsUp
  BY <1>a, <1>2, CurEffect
<1>3. CASE PeerConnects
  BY <1>a, <1>3 DEF PeerConnects
<1>4. CASE Accept
  BY <1>a, <1>4, AcceptEffect
<1>5. CASE CloseListener
  BY <1>a, <1>5 DEF CloseListener
<1> QED
  BY <1>1, <1>2, <1>3, <1>4, <1>5, StepGroups

LEMMA HaveTypeStep ==
    ASSUME TypeOK, ShapeInv, [Next]_vars
    PROVE  /\ have' \in 0 .. (Limit + 1) /\ (pc' = "body" => have' <= Limit)
           /\ fate' \in Fates
<1>a. /\ have \in 0 .. (Limit + 1) /\ (pc = "body" => have <= Limit)
      /\ fate \in Fates /\ Limit \in Nat \ {0}
  BY BoundsAssumption DEF TypeOK, ShapeInv
<1>1. CASE Idle \/ UNCHANGED vars
  BY <1>a, <1>1, IdleEffect DEF request, vars, Serving, Reading
<1>2. CASE ReadHead
  <2>1. Req.head \in {1, Limit + 2}
    BY <1>2, CurPeer DEF ReadHead, Serving, Reading, Requests
  <2> QED
    BY <1>a, <1>2, <2>1 DEF ReadHead, To
<1>3. CASE ReadNothing
  BY <1>a, <1>3 DEF ReadNothing, To, Reading
<1>4. CASE ReadBody
  BY <1>a, <1>4 DEF ReadBody, To
<1>5. CASE Dispatch
  BY <1>a, <1>5, DispatchEffect
<1>6. CASE RouteEnds
  BY <1>a, <1>6, RouteEndsEffect DEF request
<1>7. CASE Write
  BY <1>a, <1>7 DEF Write, request
<1>8. CASE Peers
  BY <1>a, <1>8, PeersEffect DEF request
<1>9. CASE Interrupt
  BY <1>a, <1>9, InterruptEffect DEF request, Cut
<1>10. CASE CloseListener
  BY <1>a, <1>10 DEF CloseListener, request
<1>11. CASE Accept \/ Result \/ Close
  BY <1>a, <1>11 DEF Accept, Result, Close, Fates
<1> QED
  BY <1>1, <1>2, <1>3, <1>4, <1>5, <1>6, <1>7, <1>8, <1>9, <1>10, <1>11, StepGroups
  DEF Inner, Peers

LEMMA ControlTypeStep ==
    ASSUME TypeOK, ShapeInv, HeldInv, [Next]_vars
    PROVE  /\ pc' \in Steps /\ listeners' \in 0 .. MaxCalls /\ fds' \subseteq Conns
           /\ cur' \in Conns \cup {NoConn} /\ (pc' \in Serving <=> cur' # NoConn)
           /\ calls' \in 0 .. MaxCalls /\ ints' \in 0 .. MaxInts
           /\ slips' \in Nat /\ late' \in Nat
           /\ listeners' > 0 => calls' > 0
<1>a. /\ pc \in Steps /\ listeners \in 0 .. MaxCalls /\ fds \subseteq Conns
      /\ cur \in Conns \cup {NoConn} /\ (pc \in Serving <=> cur # NoConn)
      /\ calls \in 0 .. MaxCalls /\ ints \in 0 .. MaxInts
      /\ slips \in Nat /\ late \in Nat
      /\ listeners > 0 => calls > 0
      /\ MaxCalls \in Nat /\ MaxInts \in Nat /\ NoConn \notin Conns
  BY BoundsAssumption DEF TypeOK, ShapeInv
<1> USE DEF Steps, Serving, Leaving, Reading
<1>1. CASE Inner
  <2>1. ints' = ints
    <3>1. CASE ReadHead \/ ReadNothing \/ ReadBody
      BY <3>1, ReadEffect DEF process
    <3> QED
      BY <1>1, <3>1, DispatchEffect, RouteEndsEffect DEF Inner, Write, process
  <2> QED
    BY <1>a, <1>1, <2>1, InnerEffect
<1>2. CASE Interrupt
  BY <1>a, <1>2, InterruptEffect DEF request, Cut
<1>3. CASE Peers \/ UNCHANGED vars
  BY <1>a, <1>3, PeersEffect DEF process, request, vars
<1>4. CASE Check \/ AcceptFails \/ Result
  BY <1>a, <1>4 DEF Check, AcceptFails, Result, process, request
<1>5. CASE Accept
  <2>1. cur' \in Conns
    BY <1>5, AcceptEffect
  <2> QED
    BY <1>a, <1>5, <2>1 DEF Accept
<1>6. CASE Close
  BY <1>a, <1>6 DEF Close, process
<1>7. CASE Edge
  BY <1>a, <1>7 DEF Edge, Call, ClearStop, ArmInt, ArmPipe, RestoreInt, RestorePipe, CloseListener,
                    request, HeldInv
<1> QED
  BY <1>1, <1>2, <1>3, <1>4, <1>5, <1>6, <1>7, StepKinds

LEMMA FlagTypeStep ==
    ASSUME TypeOK, ShapeInv, [Next]_vars
    PROVE  /\ stop' \in BOOLEAN /\ rethrow' \in BOOLEAN /\ dead' \in BOOLEAN
           /\ sigint' \in {"dfl", "srv"} /\ sigpipe' \in {"dfl", "ign"}
           /\ old' \in {"dfl", "srv"} \X {"dfl", "ign"}
<1>a. /\ stop \in BOOLEAN /\ rethrow \in BOOLEAN /\ dead \in BOOLEAN
      /\ sigint \in {"dfl", "srv"} /\ sigpipe \in {"dfl", "ign"}
      /\ old \in {"dfl", "srv"} \X {"dfl", "ign"}
  BY DEF TypeOK
<1>1. CASE ReadHead \/ ReadNothing \/ ReadBody
  BY <1>a, <1>1, ReadEffect DEF process
<1>2. CASE Dispatch
  BY <1>a, <1>2, DispatchEffect DEF process
<1>3. CASE RouteEnds
  BY <1>a, <1>3, RouteEndsEffect
<1>4. CASE Peers \/ UNCHANGED vars
  BY <1>a, <1>4, PeersEffect DEF process, vars
<1>5. CASE Interrupt
  BY <1>a, <1>5 DEF Interrupt
<1>6. CASE Write \/ Check \/ AcceptFails \/ Close
  BY <1>a, <1>6 DEF Write, Check, AcceptFails, Close, process
<1>7. CASE Accept \/ Result
  BY <1>a, <1>7 DEF Accept, Result
<1>b. old[1] \in {"dfl", "srv"} /\ old[2] \in {"dfl", "ign"}
  BY <1>a
<1>8. CASE ArmInt
  BY <1>a, <1>b, <1>8 DEF ArmInt
<1>9. CASE ArmPipe
  BY <1>a, <1>b, <1>9 DEF ArmPipe
<1>10. CASE Call \/ ClearStop \/ RestoreInt \/ RestorePipe \/ CloseListener
  BY <1>a, <1>b, <1>10 DEF Call, ClearStop, RestoreInt, RestorePipe, CloseListener
<1> QED
  BY <1>1, <1>2, <1>3, <1>4, <1>5, <1>6, <1>7, <1>8, <1>9, <1>10, StepKinds DEF Inner, Edge

LEMMA QuietTypeStep ==
    ASSUME TypeOK, ShapeInv, [Next]_vars
    PROVE  quiet' \in BOOLEAN
<1>a. quiet \in BOOLEAN
  BY DEF TypeOK
<1>1. CASE ReadHead \/ ReadNothing \/ ReadBody
  BY <1>1 DEF ReadHead, ReadNothing, ReadBody, To
<1>2. CASE Dispatch
  BY <1>a, <1>2, DispatchEffect
<1>3. CASE RouteEnds
  BY <1>a, <1>3, RouteEndsEffect DEF request
<1>4. CASE Write \/ Accept \/ Result \/ Close
  BY <1>a, <1>4 DEF Write, Accept, Result, Close, request
<1>5. CASE Peers
  BY <1>a, <1>5 DEF Peers, PeerConnects, PeerSends, PeerFallsSilent, PeerHangsUp, request
<1>6. CASE Interrupt
  BY <1>a, <1>6, InterruptEffect DEF request
<1>7. CASE Idle \/ UNCHANGED vars
  BY <1>a, <1>7, IdleEffect DEF request, vars
<1>8. CASE CloseListener
  BY <1>a, <1>8 DEF CloseListener, request
<1> QED
  BY <1>1, <1>2, <1>3, <1>4, <1>5, <1>6, <1>7, <1>8, StepGroups DEF Inner, Peers

LEMMA TypeStep ==
    ASSUME TypeOK, ShapeInv, HeldInv, PeerInv, [Next]_vars
    PROVE  TypeOK' /\ ShapeInv'
<1>1. ASSUME NEW c \in Conns
      PROVE  /\ peer'[c].st \in {"new", "queued", "open", "closed"}
             /\ peer'[c].req \in Requests
             /\ peer'[c].sent \in 0 .. (peer'[c].req.head + peer'[c].req.body)
             /\ {peer'[c].hung, peer'[c].deaf, peer'[c].asked} \subseteq BOOLEAN
             /\ peer'[c].cut \in Cuts
  <2>1. /\ peer'[c].st \in {"new", "queued", "open", "closed"}
        /\ peer'[c].req \in Requests /\ peer'[c].sent \in Nat
        /\ peer'[c].hung \in BOOLEAN /\ peer'[c].deaf \in BOOLEAN /\ peer'[c].asked \in BOOLEAN
        /\ peer'[c].cut \in Cuts
    BY PeerTypeStep DEF PeerRecord
  <2>2. peer'[c].req.head \in Nat /\ peer'[c].req.body \in Nat
    BY <2>1, BoundsAssumption DEF Requests
  <2>3. peer'[c].sent <= peer'[c].req.head + peer'[c].req.body
    BY PeerTypeStep
  <2> QED
    BY <2>1, <2>2, <2>3
<1>2. TypeOK'
  BY <1>1, QueueTypeStep, HaveTypeStep, ControlTypeStep, FlagTypeStep, QuietTypeStep DEF TypeOK, Requests
<1>3. ShapeInv'
  BY PeerTypeStep, HaveTypeStep, ControlTypeStep DEF ShapeInv, PeerRecord, Requests
<1> QED
  BY <1>2, <1>3

-----------------------------------------------------------------------------
(* The theorems *)

LEMMA ServerInit == Init => ServerInv
<1> SUFFICES ASSUME Init PROVE ServerInv
  OBVIOUS
<1> USE BoundsAssumption DEF Init
<1>1. \A c \in Conns : peer[c] = NewPeer
  OBVIOUS
<1>2. ASSUME NEW c \in Conns
      PROVE  /\ peer[c].st \in {"new", "queued", "open", "closed"}
             /\ peer[c].req \in Requests
             /\ peer[c].sent \in 0 .. (peer[c].req.head + peer[c].req.body)
             /\ {peer[c].hung, peer[c].deaf, peer[c].asked} \subseteq BOOLEAN
             /\ peer[c].cut \in Cuts
  <2>1. NewPeer.sent \in 0 .. (NewPeer.req.head + NewPeer.req.body)
    BY DEF NewPeer
  <2>2. NewPeer \in PeerRecord
    BY NewPeerType
  <2> QED
    BY <1>1, <2>1, <2>2 DEF PeerRecord
<1>3. TypeOK
  <2>1. queue \in Seq(Conns) /\ Len(queue) <= Backlog
    OBVIOUS
  <2>2. (pc \in Serving) = (cur # NoConn)
    BY DEF Serving, Reading
  <2>3. pc \in Steps /\ fate \in Fates
    BY DEF Steps, Fates
  <2>4. have \in 0 .. (Limit + 1) /\ listeners \in 0 .. MaxCalls
    OBVIOUS
  <2> QED
    BY <1>2, <2>1, <2>2, <2>3, <2>4 DEF TypeOK
<1>4. ShapeInv
  BY NewPeerType DEF ShapeInv
<1>5. HeldInv /\ SignalInv /\ LateInv
  BY DEF HeldInv, SignalInv, LateInv, Serving, Reading
<1>6. QueueInv
  BY DEF QueueInv
<1>7. PeerInv
  BY <1>1, NewPeerType DEF PeerInv, PeerGood, NewPeer
<1>8. SlipInv
  BY <1>1 DEF SlipInv, SlipGood, NewPeer
<1> QED
  BY <1>3, <1>4, <1>5, <1>6, <1>7, <1>8 DEF ServerInv

LEMMA ServerStep == ServerInv /\ [Next]_vars => ServerInv'
BY TypeStep, HeldStep, SignalStep, QueueStep, PeerStep, SlipStep, LateStep DEF ServerInv

LEMMA ServerHolds == Spec => []ServerInv
BY ServerInit, ServerStep, PTL DEF Spec

\* The state b_server keeps is what its declarations say: no queue beyond the
\* backlog, no more pieces read than the limit lets through.
THEOREM ServerTyped == Spec => []TypeOK
<1>1. ServerInv => TypeOK
  BY DEF ServerInv
<1> QED
  BY <1>1, ServerHolds, PTL

LEMMA AtMostOne ==
    ASSUME HeldInv, TypeOK
    PROVE  /\ pc = "caller" => Cardinality(fds) <= slips
           /\ Cardinality(fds \ {cur}) <= slips
<1>1. Cardinality({}) = 0 /\ \A c \in Conns : Cardinality({c}) = 1
  BY FS_EmptySet, FS_Singleton
<1>2. CASE pc = "caller"
  <2>1. cur = NoConn
    BY <1>2 DEF TypeOK, Serving, Reading
  <2>2. fds \ {cur} = fds
    BY <2>1, BoundsAssumption DEF TypeOK
  <2>3. CASE fds = {}
    BY <1>1, <1>2, <2>2, <2>3 DEF HeldInv, TypeOK
  <2>4. CASE slips = 1 /\ \E c \in Conns : fds = {c}
    BY <1>1, <1>2, <2>2, <2>4
  <2> QED
    BY <1>2, <2>3, <2>4 DEF HeldInv
<1>3. CASE pc # "caller"
  <2>1. fds \ {cur} = {} /\ slips = 0
    BY <1>3 DEF HeldInv
  <2> QED
    BY <1>1, <1>3, <2>1
<1> QED
  BY <1>2, <1>3

\* When its caller goes on, b_server has closed its listener and every
\* connection and put both signals back, but for what an error that slips past
\* it leaves behind.
THEOREM ServerGivesBack == Spec => []GivesBack
<1>1. ServerInv => GivesBack
  BY AtMostOne DEF ServerInv, GivesBack, HeldInv, SignalInv, ShapeInv
<1> QED
  BY <1>1, ServerHolds, PTL

\* One connection at a time, and one answer to each sound request that the peer,
\* Ctrl-C and the route let through: srv_one answers an error of the route as
\* well as its value.  A route whose value has no response is named: what stays
\* open without being served is exactly the connections of such routes, never
\* answered, and there are no more of them than errors that slipped past.
THEOREM RequestsAnsweredOnce == Spec => []AnsweredOnce
<1>1. ServerInv => AnsweredOnce
  <2> SUFFICES ASSUME ServerInv PROVE AnsweredOnce
    OBVIOUS
  <2> USE DEF ServerInv
  <2>1. ASSUME NEW c \in Conns
        PROVE  /\ peer[c].answers <= (IF peer[c].asked THEN 1 ELSE 0)
               /\ c # cur /\ peer[c].asked /\ ~peer[c].hung /\ peer[c].cut = "no"
                     => peer[c].answers = 1
               /\ peer[c].st = "open" /\ c # cur <=> peer[c].cut = "slip"
               /\ peer[c].cut = "slip" => peer[c].answers = 0
    <3>1. /\ PeerGood(c) /\ peer[c].st \in {"new", "queued", "open", "closed"}
          /\ peer[c].st = "open" /\ c # cur <=> peer[c].cut = "slip"
      BY <2>1 DEF PeerInv, SlipInv, SlipGood, TypeOK
    <3>2. CASE peer[c].st = "new"
      BY <3>1, <3>2, NewPeerType DEF PeerGood, Untold
    <3>3. CASE peer[c].st = "queued"
      BY <3>1, <3>3 DEF PeerGood, Untold
    <3>4. CASE peer[c].st = "closed"
      BY <3>1, <3>4 DEF PeerGood, Settled
    <3>5. CASE peer[c].st = "open" /\ c # cur
      BY <3>1, <3>5 DEF PeerGood
    <3>6. CASE peer[c].st = "open" /\ c = cur
      <4>1. pc \in Serving
        BY <3>6, BoundsAssumption DEF TypeOK
      <4> QED
        BY <3>1, <3>6, <4>1 DEF PeerGood, Untold, Settled, Serving
    <3> QED
      BY <3>1, <3>2, <3>3, <3>4, <3>5, <3>6
  <2>2. Cardinality(fds \ {cur}) <= slips
    BY AtMostOne
  <2> QED
    BY <2>1, <2>2 DEF AnsweredOnce
<1> QED
  BY <1>1, ServerHolds, PTL

\* After Ctrl-C the loop condition sends the thread out before it could accept a
\* second time.
THEOREM ServerStopsSoon == Spec => []StopsSoon
<1>1. ServerInv => StopsSoon
  BY DEF ServerInv, LateInv, StopsSoon
<1> QED
  BY <1>1, ServerHolds, PTL

=============================================================================
