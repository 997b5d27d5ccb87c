--------------------------- MODULE JsSessionProofs ---------------------------
(***************************************************************************)
(* Proofs about a QMux session in TypeScript: what JsSession's runs check  *)
(* of the credit of the sending half (NoSleeper, CreditConserved), of the  *)
(* books of the receiving half (ConsumedOnce) and of the streams of the    *)
(* peer (Admitted), for any streams, windows and frame size.               *)
(*                                                                         *)
(* The invariant is a conjunction over the two ends of one of a session    *)
(* object: SendInv, DataInv and AdmitInv, each about fields the others do  *)
(* not mention.  A handler is a composition of operators on the session    *)
(* object, so the proof goes operator by operator: a lemma XDoes says what *)
(* operator X leaves alone and what it changes, XStep or XKeeps that the   *)
(* invariant survives it, and the lemma of an action combines those of the *)
(* operators it applies.                                                   *)
(***************************************************************************)
EXTENDS JsSession, SumProofs

(****************************** the invariants *****************************)

Flow == [max : Int, used : Int, shut : BOOLEAN, sendOffset : Int,
         recvMax : Int, recvOffset : Int, recvConsumed : Int]
Recv == [queue : Seq(Nat), fin : BOOLEAN, error : BOOLEAN, terminal : BOOLEAN,
         accepted : BOOLEAN, replenished : BOOLEAN, cancelled : BOOLEAN]
Phases == {"none", "idle", "stream", "conn", "hold", "queued", "closing", "closed", "failed"}
Writer == [at : Phases, left : Int, held : Int, woken : BOOLEAN,
           errored : BOOLEAN, abort : BOOLEAN, wrote : Int]
CreditRecord == [used : Int, max : Int]
StreamFrame == [type : {"stream"}, id : StreamIds, fin : BOOLEAN, n : Int]
Frame ==
  [type : {"params", "app_close", "connection_close"}]
    \cup [type : {"stream"}, id : StreamIds, fin : BOOLEAN, n : Nat]
    \cup [type : {"reset"}, id : StreamIds, size : Int] \cup [type : {"stop"}, id : StreamIds]
    \cup [type : {"max_data"}, max : Int] \cup [type : {"max_streams"}, dir : Dirs, max : Int]
    \cup [type : {"max_stream_data"}, id : StreamIds, max : Int]
Quota == [used : Int, max : Int, released : Int]
Data == [offset : Int, max : Int, consumed : Int]
Session ==
  [me : Ends, closed : {"open", "fulfilled", "rejected"}, params : BOOLEAN,
   conn : CreditRecord, opens : [Dirs -> CreditRecord], next : [Dirs -> Nat],
   quota : [Dirs -> Quota],
   data : Data,
   recorded : SUBSET StreamIds, flow : [StreamIds -> Flow], streamFlow : SUBSET StreamIds,
   sendStreams : SUBSET StreamIds, recvStreams : SUBSET StreamIds,
   recv : [StreamIds -> Recv], writer : [StreamIds -> Writer],
   pending : [Dirs -> Seq(StreamIds)], cancelled : SUBSET Dirs, order : [StreamIds -> {0, 1}],
   control : Seq(Frame), ready : Seq(StreamFrame), inflight : Seq(StreamFrame)]
History ==
  [put : [StreamIds -> Int], paid : Int, got : [StreamIds -> Int], reset : SUBSET StreamIds,
   trailed : SUBSET StreamIds, handed : Seq(StreamIds), asked : BOOLEAN]

\* Every variable has its type, and an end knows which one it is.
TypeOK ==
  /\ plan \in Plans /\ sess \in [Ends -> Session] /\ \A e \in Ends : sess[e].me = e
  /\ wire \in [Ends -> Seq(Frame)] /\ cut \in BOOLEAN /\ hist \in [Ends -> History]

\* A writer exists for streams that were opened or seen only.
Named(x) ==
  \A s \in StreamIds : x.writer[s].at # "none" =>
    IF s.by = x.me THEN s.index < x.next[s.dir] ELSE s \in x.recorded
\* A frame of the scheduler is what its writer waits for.
Matches(x, f) ==
  LET w == x.writer[f.id]
  IN IF f.fin THEN w.at = "closing" /\ f.n = 0 ELSE w.at = "queued" /\ 0 < f.n /\ f.n <= w.left
\* The scheduler has one frame of a stream at most, the one being written included.
Framed(x) ==
  /\ \A i, j \in DOMAIN x.ready : x.ready[i].id = x.ready[j].id => i = j
  /\ x.inflight # <<>> => /\ x.inflight = <<x.inflight[1]>> /\ Matches(x, x.inflight[1])
                          /\ \A i \in DOMAIN x.ready : x.ready[i].id # x.inflight[1].id
  /\ \A i \in DOMAIN x.ready : Matches(x, x.ready[i])
\* Credit is in the hands of writers that have a frame; who waits has bytes to send.
Hands(x) ==
  \A s \in StreamIds : LET w == x.writer[s] IN
    /\ w.held >= 0 /\ (w.at # "queued" => w.held = 0)
    /\ w.at \in {"stream", "conn", "hold"} => w.left > 0
Sleepless(x) ==
  \A s \in StreamIds : ~x.writer[s].woken =>
    /\ x.writer[s].at = "conn" => TryClaim(x.conn, 1) = 0
    /\ x.writer[s].at = "stream" => TryClaim(x.flow[s], 1) = 0
Conserved(x, paid) ==
  x.conn.used = paid + SumFunction([s \in StreamIds |-> Claimed(x.writer[s])])
SendInv(x, paid) ==
  x.closed = "open" => Named(x) /\ Framed(x) /\ Hands(x) /\ Sleepless(x) /\ Conserved(x, paid)

\* The bytes in the receive queues; those neither there nor consumed.
InQueues(x) == SumFunction([s \in StreamIds |-> Buffered(x.recv[s])])
Missing(x) == x.data.offset - (x.data.consumed + InQueues(x))
Windowed(x) == x.data.max <= x.data.consumed + ConnWindow
DataInv(x) == Missing(x) >= 0 /\ (x.closed = "open" => Missing(x) = 0) /\ Windowed(x)

\* Streams of the peer: what each record of one implies.
Seen(x) ==
  /\ \A s \in x.recorded : s.by # x.me /\ s.index < x.quota[s.dir].max
  /\ \A s \in StreamIds : LET r == x.recv[s] IN s.by # x.me =>
       /\ s \in x.recvStreams \/ r.accepted \/ r.terminal \/ r.replenished => s \in x.recorded
       /\ r.replenished => r.accepted /\ r.terminal
  /\ \A s \in StreamIds : x.recv[s].accepted => s \in x.recvStreams \/ x.recv[s].terminal
Waiting(x, handed) ==
  \A d \in Dirs :
    /\ \A i, j \in DOMAIN x.pending[d] : x.pending[d][i] = x.pending[d][j] => i = j
    /\ \A i \in DOMAIN x.pending[d] : LET s == x.pending[d][i] IN
         /\ s \in x.recorded /\ s.dir = d /\ ~x.recv[s].accepted
         /\ s \in x.recvStreams \/ x.recv[s].terminal
         /\ \A j \in DOMAIN handed : handed[j] # s
Freed(x, d) ==
  {s \in x.recorded : s.dir = d /\ (x.recv[s].replenished \/ (s \notin x.recvStreams /\ ~x.recv[s].terminal))}
Slots(x, limit) ==
  \A d \in Dirs : x.quota[d].released >= 0 /\ x.quota[d].max + x.quota[d].released = limit + Cardinality(Freed(x, d))
AdmitInv(x, handed, limit) ==
  /\ x.closed = "open" => Seen(x) /\ Waiting(x, handed) /\ Slots(x, limit)
  /\ \A d \in Dirs : x.quota[d].released >= 0
  /\ x.closed # "open" => x.pending = [d \in Dirs |-> <<>>] /\ x.recvStreams = {}
  /\ \A i \in DOMAIN handed : x.closed = "open" => handed[i] \in x.recorded
  /\ IsInjective(handed)

IInv ==
  /\ TypeOK
  /\ \A e \in Ends : (sess[e].closed = "open" => hist[e].paid >= 0)
                     /\ SendInv(sess[e], hist[e].paid) /\ DataInv(sess[e])
                     /\ AdmitInv(sess[e], hist[e].handed, plan.limit)

(*************************** what operators leave ***************************)

SendSame(x, y) ==
  /\ y.me = x.me /\ y.closed = x.closed /\ y.next = x.next /\ y.recorded = x.recorded
  /\ y.conn = x.conn /\ y.writer = x.writer /\ y.ready = x.ready /\ y.inflight = x.inflight
  /\ \A s \in StreamIds : y.flow[s].max = x.flow[s].max /\ y.flow[s].used = x.flow[s].used
DataSame(x, y) == y.closed = x.closed /\ y.data = x.data /\ \A s \in StreamIds : y.recv[s].queue = x.recv[s].queue
AdmitSame(x, y) ==
  /\ y.me = x.me /\ y.closed = x.closed /\ y.recorded = x.recorded /\ y.pending = x.pending
  /\ y.recvStreams = x.recvStreams /\ y.quota = x.quota
  /\ \A s \in StreamIds : /\ y.recv[s].accepted = x.recv[s].accepted /\ y.recv[s].terminal = x.recv[s].terminal
                          /\ y.recv[s].replenished = x.recv[s].replenished
RecvSame(x, y) == DataSame(x, y) /\ AdmitSame(x, y)

\* What the sending half looks at is the same, so its invariant holds still.
LEMMA SendInvKept ==
  ASSUME NEW x \in Session, NEW y \in Session, NEW p, SendSame(x, y), SendInv(x, p)
  PROVE  SendInv(y, p)
<1>. SUFFICES ASSUME y.closed = "open"
              PROVE  Named(y) /\ Framed(y) /\ Hands(y) /\ Sleepless(y) /\ Conserved(y, p) BY DEF SendInv
<1>1. Named(x) /\ Framed(x) /\ Hands(x) /\ Sleepless(x) /\ Conserved(x, p) BY DEF SendInv, SendSame
<1>2. Named(y) BY <1>1 DEF SendSame, Named
<1>3. Framed(y) BY <1>1 DEF SendSame, Framed, Matches
<1>4. Hands(y) BY <1>1 DEF SendSame, Hands
<1>5. Sleepless(y) BY <1>1 DEF SendSame, Sleepless, TryClaim
<1>6. Conserved(y, p) BY <1>1 DEF SendSame, Conserved
<1>. QED BY <1>2, <1>3, <1>4, <1>5, <1>6

\* The bytes and their books are the same, so what they satisfy is too.
LEMMA DataInvKept ==
  ASSUME NEW x, NEW y, DataSame(x, y), DataInv(x)
  PROVE  DataInv(y)
<1>1. [s \in StreamIds |-> Buffered(y.recv[s])] = [s \in StreamIds |-> Buffered(x.recv[s])] BY DEF DataSame, Buffered
<1>2. InQueues(y) = InQueues(x) BY <1>1 DEF InQueues
<1>. QED BY <1>2 DEF DataSame, DataInv, Missing, Windowed

\* The streams of the peer are the same, so what they satisfy is too.
LEMMA AdmitInvKept ==
  ASSUME NEW x \in Session, NEW y \in Session, NEW h, NEW l, AdmitSame(x, y), AdmitInv(x, h, l)
  PROVE  AdmitInv(y, h, l)
<1>1. CASE y.closed = "open"
  <2>1. Seen(x) /\ Waiting(x, h) /\ Slots(x, l) BY <1>1 DEF AdmitSame, AdmitInv
  <2>2. Seen(y) BY <2>1 DEF AdmitSame, Seen
  <2>3. Waiting(y, h)
    <3>. SUFFICES ASSUME NEW d \in Dirs
                  PROVE  /\ \A i, j \in DOMAIN y.pending[d] : y.pending[d][i] = y.pending[d][j] => i = j
                         /\ \A i \in DOMAIN y.pending[d] : LET s == y.pending[d][i] IN
                              /\ s \in y.recorded /\ s.dir = d /\ ~y.recv[s].accepted
                              /\ s \in y.recvStreams \/ y.recv[s].terminal
                              /\ \A j \in DOMAIN h : h[j] # s BY DEF Waiting
    <3>1. \A i \in DOMAIN x.pending[d] : x.pending[d][i] \in StreamIds
      <4>1. x.pending[d] \in Seq(StreamIds) BY DEF Session
      <4>. QED BY <4>1
    <3>. QED BY <2>1, <3>1 DEF AdmitSame, Waiting
  <2>4. \A d \in Dirs : Freed(y, d) = Freed(x, d)
    <3>1. x.recorded \in SUBSET StreamIds BY DEF Session
    <3>. QED BY <3>1 DEF AdmitSame, Freed
  <2>5. Slots(y, l) BY <2>1, <2>4 DEF AdmitSame, Slots
  <2>. QED BY <1>1, <2>2, <2>3, <2>5 DEF AdmitInv, AdmitSame
<1>2. CASE y.closed # "open" BY <1>2 DEF AdmitInv, AdmitSame
<1>. QED BY <1>1, <1>2

\* Leaving a part of a session alone composes.
LEMMA SameIsTransitive ==
  ASSUME NEW x, NEW y, NEW z
  PROVE  /\ SendSame(x, x) /\ DataSame(x, x) /\ AdmitSame(x, x)
         /\ SendSame(x, y) /\ SendSame(y, z) => SendSame(x, z)
         /\ DataSame(x, y) /\ DataSame(y, z) => DataSame(x, z)
         /\ AdmitSame(x, y) /\ AdmitSame(y, z) => AdmitSame(x, z)
BY DEF SendSame, DataSame, AdmitSame

\* The fields of a frame by its type.
LEMMA FrameFields ==
  ASSUME NEW f \in Frame
  PROVE  /\ f.type \in {"stream", "reset", "stop", "max_stream_data"} => f.id \in StreamIds
         /\ f.type = "stream" => f.n \in Nat /\ f.fin \in BOOLEAN
         /\ f.type = "reset" => f.size \in Int
         /\ f.type \in {"max_data", "max_streams", "max_stream_data"} => f.max \in Int
         /\ f.type = "max_streams" => f.dir \in Dirs
BY DEF Frame

(************************* operators of the receive side *******************)

\* sendPriorityFrame only queues: it is invisible to the three invariants.
LEMMA SendPriorityFrameDoes ==
  ASSUME NEW x \in Session, NEW f \in Frame
  PROVE  /\ SendPriorityFrame(x, f) \in Session
         /\ SendSame(x, SendPriorityFrame(x, f)) /\ RecvSame(x, SendPriorityFrame(x, f))
         /\ SendPriorityFrame(x, f).recv = x.recv
<1>1. SendPriorityFrame(x, f) \in Session
  <2>0. x.control \in Seq(Frame) BY DEF Session
  <2>1. PICK c : c = Append(x.control, f) OBVIOUS
  <2>2. c \in Seq(Frame) BY <2>0, <2>1
  <2>3. [x EXCEPT !.control = c] \in Session BY <2>2 DEF Session
  <2>. QED BY <2>1, <2>3 DEF SendPriorityFrame
<1>2. SendSame(x, SendPriorityFrame(x, f)) BY DEF Session, SendPriorityFrame, SendSame
<1>3. RecvSame(x, SendPriorityFrame(x, f)) BY DEF Session, SendPriorityFrame, RecvSame, DataSame, AdmitSame
<1>4. SendPriorityFrame(x, f).recv = x.recv BY DEF Session, SendPriorityFrame
<1>. QED BY <1>1, <1>2, <1>3, <1>4

\* Consumed bytes move the count and, now and then, the window; the window stays
\* within ConnWindow of the count.
LEMMA AccountConnConsumedDoes ==
  ASSUME NEW x \in Session, NEW n \in Nat
  PROVE  LET y == AccountConnConsumed(x, n) IN
         /\ y \in Session /\ SendSame(x, y) /\ AdmitSame(x, y) /\ y.recv = x.recv
         /\ y.data.offset = x.data.offset /\ y.data.consumed = x.data.consumed + n
         /\ x.data.max <= x.data.consumed + ConnWindow => y.data.max <= y.data.consumed + ConnWindow
<1>. DEFINE z == [x EXCEPT !.data.consumed = @ + n]
            new == ReplenishWindow(z.data.consumed, z.data.max, ConnWindow)
            w == [z EXCEPT !.data.max = new]
<1>0. ConnWindow \in Nat /\ x.data \in [offset : Int, max : Int, consumed : Int] BY JsAssumption DEF Session, Data
<1>1. z \in Session /\ SendSame(x, z) /\ AdmitSame(x, z) /\ z.recv = x.recv
      /\ z.data = [offset |-> x.data.offset, max |-> x.data.max, consumed |-> x.data.consumed + n]
  <2>1. z \in Session
    <3>1. PICK v : v = [x.data EXCEPT !.consumed = @ + n] OBVIOUS
    <3>2. v \in Data BY <1>0, <3>1 DEF Data
    <3>3. [x EXCEPT !.data = v] \in Session BY <3>2 DEF Session
    <3>. QED BY <3>1, <3>3
  <2>2. SendSame(x, z) /\ AdmitSame(x, z) /\ z.recv = x.recv BY <1>0 DEF Session, SendSame, AdmitSame
  <2>3. z.data = [offset |-> x.data.offset, max |-> x.data.max, consumed |-> x.data.consumed + n] BY <1>0 DEF Session
  <2>. QED BY <2>1, <2>2, <2>3
<1>2. new \in Int /\ (new # 0 => new = z.data.consumed + ConnWindow) BY <1>0, <1>1 DEF ReplenishWindow
<1>3. w \in Session /\ SendSame(z, w) /\ AdmitSame(z, w) /\ w.recv = z.recv
      /\ w.data = [offset |-> z.data.offset, max |-> new, consumed |-> z.data.consumed]
  <2>. HIDE DEF z, new
  <2>1. w \in Session BY <1>1, <1>2 DEF Session, Data
  <2>2. SendSame(z, w) /\ AdmitSame(z, w) /\ w.recv = z.recv BY <1>1 DEF Session, SendSame, AdmitSame
  <2>3. w.data = [offset |-> z.data.offset, max |-> new, consumed |-> z.data.consumed] BY <1>1 DEF Session, Data
  <2>. QED BY <2>1, <2>2, <2>3
<1>4. [type |-> "max_data", max |-> new] \in Frame BY <1>2 DEF Frame
<1>5. PICK y : y = SendPriorityFrame(w, [type |-> "max_data", max |-> new]) OBVIOUS
<1>6. y \in Session /\ SendSame(w, y) /\ RecvSame(w, y) /\ y.recv = w.recv
  <2>. HIDE DEF w, new
  <2>. QED BY <1>3, <1>4, <1>5, SendPriorityFrameDoes
<1>7. AccountConnConsumed(x, n) = IF n = 0 THEN x ELSE IF new = 0 THEN z ELSE y
  BY <1>5 DEF AccountConnConsumed, MaybeSendMaxData
<1>. HIDE DEF z, w, new
<1>8. SendSame(x, y) /\ AdmitSame(x, y) /\ y.recv = x.recv /\ y.data = w.data
  BY <1>1, <1>3, <1>6, SameIsTransitive DEF RecvSame, DataSame
<1>9. CASE n = 0 BY <1>0, <1>7, <1>9, SameIsTransitive
<1>10. CASE n # 0 /\ new = 0 BY <1>0, <1>1, <1>7, <1>10
<1>11. CASE n # 0 /\ new # 0 BY <1>0, <1>1, <1>2, <1>3, <1>6, <1>7, <1>8, <1>11
<1>. QED BY <1>9, <1>10, <1>11

\* The window of a stream is nobody's business but the stream's.
LEMMA AccountStreamConsumedDoes ==
  ASSUME NEW x \in Session, NEW s \in StreamIds, NEW n \in Nat
  PROVE  LET y == AccountStreamConsumed(x, s, n) IN
         y \in Session /\ SendSame(x, y) /\ RecvSame(x, y)
<1>. DEFINE z == [x EXCEPT !.flow[s].recvConsumed = @ + n]
            new == ReplenishWindow(z.flow[s].recvConsumed, z.flow[s].recvMax, StreamWindow)
            w == [z EXCEPT !.flow[s].recvMax = new]
<1>0. StreamWindow \in Nat /\ x.flow \in [StreamIds -> Flow] /\ x.flow[s] \in Flow BY JsAssumption DEF Session
<1>1. z \in Session /\ SendSame(x, z) /\ RecvSame(x, z)
  <2>1. PICK v : v = [x.flow[s] EXCEPT !.recvConsumed = @ + n] OBVIOUS
  <2>2. v \in Flow /\ v.max = x.flow[s].max /\ v.used = x.flow[s].used BY <1>0, <2>1 DEF Flow
  <2>3. PICK u : u = [x.flow EXCEPT ![s] = v] OBVIOUS
  <2>4. u \in [StreamIds -> Flow]
        /\ \A t \in StreamIds : u[t].max = x.flow[t].max /\ u[t].used = x.flow[t].used BY <1>0, <2>2, <2>3
  <2>5. z = [x EXCEPT !.flow = u] BY <2>1, <2>3
  <2>. HIDE DEF z
  <2>6. z \in Session BY <2>4, <2>5 DEF Session
  <2>7. SendSame(x, z) BY <2>4, <2>5 DEF Session, SendSame
  <2>8. RecvSame(x, z) BY <2>5 DEF Session, RecvSame, DataSame, AdmitSame
  <2>. QED BY <2>6, <2>7, <2>8
<1>2. z.flow \in [StreamIds -> Flow] /\ z.flow[s] \in Flow
  <2>. HIDE DEF z
  <2>. QED BY <1>1 DEF Session
<1>3. new \in Int
  <2>. HIDE DEF z
  <2>. QED BY <1>0, <1>2 DEF ReplenishWindow, Flow
<1>4. w \in Session /\ SendSame(z, w) /\ RecvSame(z, w)
  <2>. HIDE DEF z, new
  <2>1. PICK v : v = [z.flow[s] EXCEPT !.recvMax = new] OBVIOUS
  <2>2. v \in Flow /\ v.max = z.flow[s].max /\ v.used = z.flow[s].used BY <1>2, <1>3, <2>1 DEF Flow
  <2>3. PICK u : u = [z.flow EXCEPT ![s] = v] OBVIOUS
  <2>4. u \in [StreamIds -> Flow]
        /\ \A t \in StreamIds : u[t].max = z.flow[t].max /\ u[t].used = z.flow[t].used BY <1>2, <2>2, <2>3
  <2>5. w = [z EXCEPT !.flow = u] BY <2>1, <2>3
  <2>. HIDE DEF w
  <2>6. w \in Session BY <1>1, <2>4, <2>5 DEF Session
  <2>7. SendSame(z, w) BY <1>1, <2>4, <2>5 DEF Session, SendSame
  <2>8. RecvSame(z, w) BY <1>1, <2>5 DEF Session, RecvSame, DataSame, AdmitSame
  <2>. QED BY <2>6, <2>7, <2>8
<1>5. PICK f : f = [type |-> "max_stream_data", id |-> s, max |-> new] OBVIOUS
<1>6. f \in Frame BY <1>3, <1>5 DEF Frame
<1>7. PICK y : y = SendPriorityFrame(w, f) OBVIOUS
<1>8. AccountStreamConsumed(x, s, n) = IF n = 0 \/ s \notin x.streamFlow THEN x ELSE IF new = 0 THEN z ELSE y
  BY <1>5, <1>7 DEF AccountStreamConsumed, MaybeSendMaxStreamData
<1>. HIDE DEF z, w, new
<1>9. y \in Session /\ SendSame(w, y) /\ RecvSame(w, y) BY <1>4, <1>6, <1>7, SendPriorityFrameDoes
<1>10. SendSame(x, w) /\ RecvSame(x, w) BY <1>1, <1>4, SameIsTransitive DEF RecvSame
<1>11. SendSame(x, y) /\ RecvSame(x, y) BY <1>9, <1>10, SameIsTransitive DEF RecvSame
<1>12. SendSame(x, x) /\ RecvSame(x, x) BY SameIsTransitive DEF RecvSame
<1>. QED BY <1>1, <1>8, <1>9, <1>11, <1>12

\* One slot goes back: announced at once or kept in released.
LEMMA ReplenishDoes ==
  ASSUME NEW x \in Session, NEW d \in Dirs, x.quota[d].released >= 0
  PROVE  LET y == ReplenishStreamCredit(x, d) IN
         /\ y \in Session /\ SendSame(x, y) /\ DataSame(x, y)
         /\ y.pending = x.pending /\ y.recvStreams = x.recvStreams /\ y.recv = x.recv
         /\ \A c \in Dirs : c # d => y.quota[c] = x.quota[c]
         /\ y.quota[d].max + y.quota[d].released = x.quota[d].max + x.quota[d].released + 1
         /\ y.quota[d].max >= x.quota[d].max /\ y.quota[d].released >= 0
<1>. DEFINE q == [x.quota[d] EXCEPT !.released = @ + 1]
            r == [q EXCEPT !.max = q.max + q.released, !.released = 0]
            Put(v) == [x EXCEPT !.quota[d] = v]
<1>1. x.quota[d] \in Quota /\ x.quota \in [Dirs -> Quota] BY DEF Session
<1>2. /\ q \in Quota /\ q.max = x.quota[d].max /\ q.released = x.quota[d].released + 1
      /\ r \in Quota /\ r.max = x.quota[d].max + x.quota[d].released + 1 /\ r.released = 0
  <2>1. q \in Quota /\ q.max = x.quota[d].max /\ q.released = x.quota[d].released + 1 BY <1>1 DEF Quota
  <2>. HIDE DEF q
  <2>2. r \in Quota /\ r.max = q.max + q.released /\ r.released = 0
    <3>1. PICK m : m = q.max + q.released OBVIOUS
    <3>2. m \in Int BY <1>1, <2>1, <3>1 DEF Quota
    <3>3. r = [q EXCEPT !.max = m, !.released = 0] BY <3>1
    <3>. HIDE DEF r
    <3>4. r = [used |-> q.used, max |-> m, released |-> 0] /\ q.used \in Int BY <2>1, <3>3 DEF Quota
    <3>. QED BY <3>1, <3>2, <3>4 DEF Quota
  <2>. HIDE DEF r
  <2>. QED BY <1>1, <2>1, <2>2 DEF Quota
<1>. HIDE DEF q, r
<1>3. ASSUME NEW v \in Quota
      PROVE  /\ Put(v) \in Session /\ SendSame(x, Put(v)) /\ DataSame(x, Put(v))
             /\ Put(v).pending = x.pending /\ Put(v).recvStreams = x.recvStreams /\ Put(v).recv = x.recv
             /\ \A c \in Dirs : c # d => Put(v).quota[c] = x.quota[c]
             /\ Put(v).quota[d] = v
  <2>1. PICK u : u = [x.quota EXCEPT ![d] = v] OBVIOUS
  <2>2. u \in [Dirs -> Quota] /\ u[d] = v /\ \A c \in Dirs : c # d => u[c] = x.quota[c] BY <1>1, <2>1
  <2>3. PICK y : y = Put(v) OBVIOUS
  <2>4. y = [x EXCEPT !.quota = u] BY <2>1, <2>3
  <2>5. y \in Session BY <2>2, <2>4 DEF Session
  <2>6. SendSame(x, y) /\ DataSame(x, y) /\ y.pending = x.pending /\ y.recvStreams = x.recvStreams
        /\ y.quota = u /\ y.recv = x.recv BY <2>4 DEF Session, SendSame, DataSame
  <2>. QED BY <2>2, <2>3, <2>5, <2>6
<1>4. PICK f : f = [type |-> "max_streams", dir |-> d, max |-> r.max] OBVIOUS
<1>5. f \in Frame BY <1>2, <1>4 DEF Frame, Quota
<1>6. PICK y : y = SendPriorityFrame(Put(r), f) OBVIOUS
<1>7. y \in Session /\ SendSame(Put(r), y) /\ RecvSame(Put(r), y) /\ y.recv = Put(r).recv
  <2>. HIDE DEF Put
  <2>. QED BY <1>2, <1>3, <1>5, <1>6, SendPriorityFrameDoes
<1>8. \/ ReplenishStreamCredit(x, d) = Put(q)
      \/ ReplenishStreamCredit(x, d) = y
  <2>1. r.max = q.max + q.released BY <1>1 DEF r, q, Quota
  <2>2. y = SendPriorityFrame([x EXCEPT !.quota[d] = r], [type |-> "max_streams", dir |-> d, max |-> q.max + q.released])
    BY <1>4, <1>6, <2>1
  <2>. QED BY <2>2 DEF ReplenishStreamCredit, q, r
<1>9. CASE ReplenishStreamCredit(x, d) = Put(q)
  <2>. HIDE DEF Put
  <2>1. PICK z : z = Put(q) OBVIOUS
  <2>2. /\ z \in Session /\ SendSame(x, z) /\ DataSame(x, z)
        /\ z.pending = x.pending /\ z.recvStreams = x.recvStreams /\ z.recv = x.recv
        /\ (\A c \in Dirs : c # d => z.quota[c] = x.quota[c]) /\ z.quota[d] = q BY <1>2, <1>3, <2>1
  <2>3. /\ z.quota[d].max + z.quota[d].released = x.quota[d].max + x.quota[d].released + 1
        /\ z.quota[d].max >= x.quota[d].max /\ z.quota[d].released >= 0 BY <1>1, <1>2, <2>2 DEF Quota
  <2>. QED BY <1>9, <2>1, <2>2, <2>3
<1>10. CASE ReplenishStreamCredit(x, d) = y
  <2>. HIDE DEF Put
  <2>1. SendSame(x, y) /\ DataSame(x, y) BY <1>2, <1>3, <1>7, SameIsTransitive DEF RecvSame
  <2>2. y.pending = x.pending /\ y.recvStreams = x.recvStreams /\ y.quota = Put(r).quota /\ y.recv = x.recv
    BY <1>2, <1>3, <1>7 DEF RecvSame, AdmitSame
  <2>. QED BY <1>1, <1>2, <1>3, <1>7, <1>10, <2>1, <2>2 DEF Quota
<1>. QED BY <1>8, <1>9, <1>10

\* The credit of one stream of direction d went back.
Replenished(x, y, d) ==
  /\ \A c \in Dirs : c # d => y.quota[c] = x.quota[c]
  /\ y.quota[d].max + y.quota[d].released = x.quota[d].max + x.quota[d].released + 1
  /\ y.quota[d].max >= x.quota[d].max /\ y.quota[d].released >= 0

\* maybeReplenishStreamCredit gives a slot back when the stream is accepted,
\* terminal and not yet replenished, and otherwise nothing.
LEMMA MaybeReplenishDoes ==
  ASSUME NEW x \in Session, NEW s \in StreamIds, \A d \in Dirs : x.quota[d].released >= 0
  PROVE  LET y == MaybeReplenish(x, s) IN
         /\ y \in Session /\ SendSame(x, y) /\ DataSame(x, y) /\ y.pending = x.pending /\ y.recvStreams = x.recvStreams
         /\ \A t \in StreamIds : y.recv[t].accepted = x.recv[t].accepted /\ y.recv[t].terminal = x.recv[t].terminal
         /\ \A t \in StreamIds : t # s => y.recv[t].replenished = x.recv[t].replenished
         /\ \/ /\ s.by = x.me \/ ~x.recv[s].accepted \/ ~x.recv[s].terminal \/ x.recv[s].replenished
               /\ y.quota = x.quota /\ y.recv[s].replenished = x.recv[s].replenished
            \/ /\ s.by # x.me /\ x.recv[s].accepted /\ x.recv[s].terminal /\ ~x.recv[s].replenished
               /\ Replenished(x, y, s.dir) /\ y.recv[s].replenished
<1>1. PICK y : y = MaybeReplenish(x, s) OBVIOUS
<1>2. CASE s.by = x.me \/ ~x.recv[s].accepted \/ ~x.recv[s].terminal \/ x.recv[s].replenished
  <2>1. y = x BY <1>1, <1>2 DEF MaybeReplenish
  <2>. QED BY <1>1, <1>2, <2>1, SameIsTransitive
<1>3. CASE ~(s.by = x.me \/ ~x.recv[s].accepted \/ ~x.recv[s].terminal \/ x.recv[s].replenished)
  <2>1. PICK z : z = [x EXCEPT !.recv[s].replenished = TRUE] OBVIOUS
  <2>2. x.recv \in [StreamIds -> Recv] /\ x.recv[s] \in Recv BY DEF Session
  <2>3. PICK v : v = [x.recv[s] EXCEPT !.replenished = TRUE] OBVIOUS
  <2>4. v \in Recv /\ v.queue = x.recv[s].queue /\ v.accepted = x.recv[s].accepted
        /\ v.terminal = x.recv[s].terminal /\ v.replenished = TRUE BY <2>2, <2>3 DEF Recv
  <2>5. PICK u : u = [x.recv EXCEPT ![s] = v] OBVIOUS
  <2>6. u \in [StreamIds -> Recv] /\ u[s] = v /\ \A t \in StreamIds : t # s => u[t] = x.recv[t] BY <2>2, <2>4, <2>5
  <2>7. z = [x EXCEPT !.recv = u] BY <2>1, <2>3, <2>5
  <2>8. z \in Session BY <2>6, <2>7 DEF Session
  <2>9. z.recv = u /\ z.quota = x.quota /\ z.pending = x.pending /\ z.recvStreams = x.recvStreams
        /\ z.data = x.data /\ z.me = x.me /\ z.closed = x.closed BY <2>7 DEF Session
  <2>10. SendSame(x, z) BY <2>7 DEF Session, SendSame
  <2>11. DataSame(x, z) BY <2>4, <2>6, <2>9 DEF DataSame
  <2>12. y = ReplenishStreamCredit(z, s.dir) BY <1>1, <1>3, <2>1 DEF MaybeReplenish
  <2>13. s.dir \in Dirs /\ \A d \in Dirs : z.quota[d].released >= 0 BY <2>9, JsAssumption
  <2>14. /\ y \in Session /\ SendSame(z, y) /\ DataSame(z, y)
         /\ y.pending = z.pending /\ y.recvStreams = z.recvStreams /\ y.recv = z.recv
         /\ Replenished(z, y, s.dir) BY <2>8, <2>12, <2>13, ReplenishDoes DEF Replenished
  <2>15. SendSame(x, y) /\ DataSame(x, y) BY <2>10, <2>11, <2>14, SameIsTransitive
  <2>16. Replenished(x, y, s.dir) BY <2>9, <2>14 DEF Replenished
  <2>17. y.recv = u /\ y.pending = x.pending /\ y.recvStreams = x.recvStreams BY <2>9, <2>14
  <2>18. /\ \A t \in StreamIds : y.recv[t].accepted = x.recv[t].accepted /\ y.recv[t].terminal = x.recv[t].terminal
         /\ \A t \in StreamIds : t # s => y.recv[t].replenished = x.recv[t].replenished
         /\ y.recv[s].replenished BY <2>4, <2>6, <2>17
  <2>. QED BY <1>1, <1>3, <2>14, <2>15, <2>16, <2>17, <2>18
<1>. QED BY <1>2, <1>3

\* What AdmitInv looks at, but for the streams that wait and the flags of s.
LEMMA FreedGrows ==
  ASSUME NEW x \in Session, NEW y \in Session, NEW s \in StreamIds, NEW l \in Int, Slots(x, l),
         s.dir \in Dirs, Replenished(x, y, s.dir), s \notin Freed(x, s.dir),
         Freed(y, s.dir) = Freed(x, s.dir) \cup {s},
         \A d \in Dirs : d # s.dir => Freed(y, d) = Freed(x, d)
  PROVE  Slots(y, l)
<1>1. IsFiniteSet(Freed(x, s.dir))
  <2>1. Freed(x, s.dir) \in SUBSET StreamIds BY DEF Freed, Session
  <2>. QED BY <2>1, JsAssumption, FS_Subset
<1>2. Cardinality(Freed(x, s.dir)) \in Nat BY <1>1, FS_CardinalityType
<1>3. Cardinality(Freed(y, s.dir)) = Cardinality(Freed(x, s.dir)) + 1 BY <1>1, FS_AddElement
<1>4. \A d \in Dirs : x.quota[d].max \in Int /\ x.quota[d].released \in Int
                      /\ y.quota[d].max \in Int /\ y.quota[d].released \in Int BY DEF Session, Quota
<1>5. /\ y.quota[s.dir].released >= 0 /\ y.quota[s.dir].max + y.quota[s.dir].released = l + Cardinality(Freed(y, s.dir))
  BY <1>2, <1>3, <1>4 DEF Slots, Replenished
<1>6. \A d \in Dirs : d # s.dir => y.quota[d] = x.quota[d] BY DEF Replenished
<1>. QED BY <1>5, <1>6 DEF Slots

\* The receive side of s has ended; its entry may have been removed before.
LEMMA NotifyTerminalKeeps ==
  ASSUME NEW x \in Session, NEW h, NEW l \in Int, NEW s \in StreamIds,
         Seen(x), Waiting(x, h), Slots(x, l), s \in x.recvStreams \/ x.recv[s].terminal,
         NEW z \in Session, z.me = x.me, z.recorded = x.recorded, z.pending = x.pending, z.quota = x.quota,
         z.recvStreams = x.recvStreams \/ z.recvStreams = x.recvStreams \ {s},
         \A t \in StreamIds : /\ z.recv[t].accepted = x.recv[t].accepted /\ z.recv[t].terminal = x.recv[t].terminal
                              /\ z.recv[t].replenished = x.recv[t].replenished
  PROVE  LET y == NotifyTerminal(z, s) IN
         /\ y \in Session /\ SendSame(z, y) /\ DataSame(z, y) /\ y.recorded = x.recorded
         /\ y.recvStreams = z.recvStreams /\ y.pending = x.pending /\ y.recv[s].terminal
         /\ Seen(y) /\ Waiting(y, h) /\ Slots(y, l)
<1>1. PICK w : w = [z EXCEPT !.recv[s].terminal = TRUE] OBVIOUS
<1>2. z.recv \in [StreamIds -> Recv] /\ z.recv[s] \in Recv /\ x.recv[s] \in Recv BY DEF Session
<1>3. PICK v : v = [z.recv[s] EXCEPT !.terminal = TRUE] OBVIOUS
<1>4. v \in Recv /\ v.queue = z.recv[s].queue /\ v.accepted = z.recv[s].accepted
      /\ v.replenished = z.recv[s].replenished /\ v.terminal = TRUE BY <1>2, <1>3 DEF Recv
<1>5. PICK u : u = [z.recv EXCEPT ![s] = v] OBVIOUS
<1>6. u \in [StreamIds -> Recv] /\ u[s] = v /\ \A t \in StreamIds : t # s => u[t] = z.recv[t] BY <1>2, <1>4, <1>5
<1>7. w = [z EXCEPT !.recv = u] BY <1>1, <1>3, <1>5
<1>8. w \in Session BY <1>6, <1>7 DEF Session
<1>9. w.recv = u /\ w.quota = z.quota /\ w.pending = z.pending /\ w.recvStreams = z.recvStreams
      /\ w.data = z.data /\ w.me = z.me /\ w.closed = z.closed /\ w.recorded = z.recorded BY <1>7 DEF Session
<1>10. SendSame(z, w) BY <1>7 DEF Session, SendSame
<1>11. DataSame(z, w) BY <1>4, <1>6, <1>9 DEF DataSame
<1>12. PICK y : y = NotifyTerminal(z, s) OBVIOUS
<1>13. y = MaybeReplenish(w, s) BY <1>1, <1>12 DEF NotifyTerminal
<1>14. \A d \in Dirs : w.quota[d].released >= 0 BY <1>9 DEF Slots
<1>15. /\ y \in Session /\ SendSame(w, y) /\ DataSame(w, y) /\ y.pending = w.pending /\ y.recvStreams = w.recvStreams
       /\ \A t \in StreamIds : y.recv[t].accepted = w.recv[t].accepted /\ y.recv[t].terminal = w.recv[t].terminal
       /\ \A t \in StreamIds : t # s => y.recv[t].replenished = w.recv[t].replenished
       /\ \/ /\ s.by = w.me \/ ~w.recv[s].accepted \/ ~w.recv[s].terminal \/ w.recv[s].replenished
             /\ y.quota = w.quota /\ y.recv[s].replenished = w.recv[s].replenished
          \/ /\ s.by # w.me /\ w.recv[s].accepted /\ w.recv[s].terminal /\ ~w.recv[s].replenished
             /\ Replenished(w, y, s.dir) /\ y.recv[s].replenished BY <1>8, <1>13, <1>14, MaybeReplenishDoes
<1>16. /\ SendSame(z, y) /\ DataSame(z, y) BY <1>10, <1>11, <1>15, SameIsTransitive
<1>17. y.me = x.me /\ y.recorded = x.recorded /\ y.pending = x.pending /\ y.recvStreams = z.recvStreams
  BY <1>9, <1>15 DEF SendSame
<1>18. /\ \A t \in StreamIds : y.recv[t].accepted = x.recv[t].accepted
       /\ \A t \in StreamIds : t # s => /\ y.recv[t].terminal = x.recv[t].terminal
                                        /\ y.recv[t].replenished = x.recv[t].replenished
       /\ y.recv[s].terminal BY <1>4, <1>6, <1>9, <1>15
<1>19. \/ y.quota = x.quota /\ y.recv[s].replenished = x.recv[s].replenished
       \/ /\ s.by # x.me /\ x.recv[s].accepted /\ ~x.recv[s].replenished
          /\ Replenished(x, y, s.dir) /\ y.recv[s].replenished
  <2>1. w.recv[s].accepted = x.recv[s].accepted /\ w.recv[s].replenished = x.recv[s].replenished BY <1>4, <1>6, <1>9
  <2>2. Replenished(w, y, s.dir) => Replenished(x, y, s.dir) BY <1>9 DEF Replenished
  <2>. QED BY <1>9, <1>15, <2>1, <2>2
<1>20. s.dir \in Dirs /\ x.recorded \in SUBSET StreamIds BY JsAssumption DEF Session
<1>21. s.by # x.me => s \in x.recorded BY DEF Seen
<1>22. Seen(y)
  <2>1. \A d \in Dirs : y.quota[d].max >= x.quota[d].max
    <3>1. \A d \in Dirs : x.quota[d].max \in Int BY DEF Session, Quota
    <3>. QED BY <1>19, <1>20, <3>1 DEF Replenished
  <2>2. \A t \in y.recorded : t.by # y.me /\ t.index < y.quota[t.dir].max
    <3>. SUFFICES ASSUME NEW t \in x.recorded PROVE t.by # x.me /\ t.index < y.quota[t.dir].max BY <1>17
    <3>1. t.index \in Int /\ t.dir \in Dirs BY <1>20, JsAssumption
    <3>2. x.quota[t.dir].max \in Int /\ y.quota[t.dir].max \in Int BY <1>15, <3>1 DEF Session, Quota
    <3>. QED BY <2>1, <3>1, <3>2 DEF Seen
  <2>5. \A t \in StreamIds : y.recv[t].accepted => t \in y.recvStreams \/ y.recv[t].terminal BY <1>17, <1>18 DEF Seen
  <2>3. ASSUME NEW t \in StreamIds, t.by # y.me, t # s
        PROVE  /\ t \in y.recvStreams \/ y.recv[t].accepted \/ y.recv[t].terminal \/ y.recv[t].replenished => t \in y.recorded
               /\ y.recv[t].replenished => y.recv[t].accepted /\ y.recv[t].terminal BY <1>17, <1>18, <2>3 DEF Seen
  <2>4. ASSUME s.by # y.me
        PROVE  /\ s \in y.recorded
               /\ y.recv[s].replenished => y.recv[s].accepted /\ y.recv[s].terminal
               /\ y.recv[s].terminal BY <1>17, <1>18, <1>19, <1>21, <2>4 DEF Seen
  <2>. QED BY <2>2, <2>3, <2>4, <2>5 DEF Seen
<1>23. Waiting(y, h)
  <2>. SUFFICES ASSUME NEW d \in Dirs
                PROVE  /\ \A i, j \in DOMAIN y.pending[d] : y.pending[d][i] = y.pending[d][j] => i = j
                       /\ \A i \in DOMAIN y.pending[d] : LET t == y.pending[d][i] IN
                            /\ t \in y.recorded /\ t.dir = d /\ ~y.recv[t].accepted
                            /\ t \in y.recvStreams \/ y.recv[t].terminal
                            /\ \A j \in DOMAIN h : h[j] # t BY DEF Waiting
  <2>1. \A i \in DOMAIN x.pending[d] : x.pending[d][i] \in StreamIds
    <3>1. x.pending[d] \in Seq(StreamIds) BY DEF Session
    <3>. QED BY <3>1
  <2>2. \A t \in StreamIds : t \in x.recvStreams \/ x.recv[t].terminal => t \in y.recvStreams \/ y.recv[t].terminal
    BY <1>17, <1>18
  <2>. QED BY <1>17, <1>18, <2>1, <2>2 DEF Waiting
<1>24. Slots(y, l)
  <2>1. \A t \in StreamIds : t # s => (t \in y.recvStreams <=> t \in x.recvStreams) BY <1>17
  <2>2. \A d \in Dirs : \A t \in StreamIds : t # s => (t \in Freed(y, d) <=> t \in Freed(x, d))
    BY <1>17, <1>18, <2>1 DEF Freed
  <2>3. \A d \in Dirs : Freed(x, d) \in SUBSET StreamIds /\ Freed(y, d) \in SUBSET StreamIds BY <1>17, <1>20 DEF Freed
  <2>4. \A d \in Dirs : s \in Freed(y, d) <=> s \in x.recorded /\ s.dir = d /\ y.recv[s].replenished
    BY <1>17, <1>18 DEF Freed
  <2>5. \A d \in Dirs : s \in Freed(x, d) <=> s \in x.recorded /\ s.dir = d /\ x.recv[s].replenished BY DEF Freed
  <2>6. CASE y.quota = x.quota /\ y.recv[s].replenished = x.recv[s].replenished
    <3>1. \A d \in Dirs : s \in Freed(y, d) <=> s \in Freed(x, d) BY <2>4, <2>5, <2>6
    <3>2. \A d \in Dirs : Freed(y, d) = Freed(x, d)
      <4>. TAKE d \in Dirs
      <4>1. \A t \in StreamIds : t \in Freed(y, d) <=> t \in Freed(x, d) BY <2>2, <3>1
      <4>. QED BY <2>3, <4>1
    <3>. QED BY <2>6, <3>2 DEF Slots
  <2>7. CASE /\ s.by # x.me /\ x.recv[s].accepted /\ ~x.recv[s].replenished
             /\ Replenished(x, y, s.dir) /\ y.recv[s].replenished
    <3>1. s \in x.recorded BY <1>21, <2>7
    <3>2. s \notin Freed(x, s.dir) /\ s \in Freed(y, s.dir) BY <1>20, <2>4, <2>5, <2>7, <3>1
    <3>3. Freed(y, s.dir) = Freed(x, s.dir) \cup {s} BY <1>20, <2>2, <2>3, <3>2
    <3>4. \A d \in Dirs : d # s.dir => Freed(y, d) = Freed(x, d)
      <4>. SUFFICES ASSUME NEW d \in Dirs, d # s.dir PROVE Freed(y, d) = Freed(x, d) OBVIOUS
      <4>1. \A t \in StreamIds : t \in Freed(y, d) <=> t \in Freed(x, d) BY <2>2, <2>4, <2>5
      <4>. QED BY <2>3, <4>1
    <3>. QED BY <1>15, <1>20, <2>7, <3>2, <3>3, <3>4, FreedGrows
  <2>. QED BY <1>19, <2>6, <2>7
<1>. QED BY <1>12, <1>15, <1>16, <1>17, <1>18, <1>22, <1>23, <1>24

(***************************** bytes received *******************************)

\* The bytes in the receive queues are a natural number.
LEMMA InQueuesType ==
  ASSUME NEW x \in Session
  PROVE  InQueues(x) \in Nat /\ \A s \in StreamIds : Buffered(x.recv[s]) \in Nat
<1>1. \A s \in StreamIds : Buffered(x.recv[s]) \in Nat
  <2>. TAKE s \in StreamIds
  <2>1. x.recv[s].queue \in Seq(Nat) BY DEF Session, Recv
  <2>2. x.recv[s].queue \in Seq(Int) BY <2>1
  <2>. QED BY <2>1, <2>2, SumType DEF Buffered
<1>2. PICK g : g = [s \in StreamIds |-> Buffered(x.recv[s])] OBVIOUS
<1>3. DOMAIN g = StreamIds /\ IsFiniteSet(StreamIds)
      /\ (\A s \in StreamIds : g[s] \in Int) /\ (\A s \in StreamIds : g[s] \in Nat) BY <1>1, <1>2, JsAssumption
<1>4. SumFunction(g) = SumFunctionOnSet(g, StreamIds) BY <1>3, SumIsTotal
<1>. QED BY <1>1, <1>2, <1>3, <1>4, TotalType DEF InQueues

\* The queue of one stream changes.
LEMMA InQueuesMoves ==
  ASSUME NEW x \in Session, NEW y \in Session, NEW s \in StreamIds,
         \A t \in StreamIds : t # s => y.recv[t].queue = x.recv[t].queue
  PROVE  InQueues(y) = InQueues(x) + (Buffered(y.recv[s]) - Buffered(x.recv[s]))
<1>1. PICK g, h : g = [t \in StreamIds |-> Buffered(x.recv[t])] /\ h = [t \in StreamIds |-> Buffered(y.recv[t])] OBVIOUS
<1>2. DOMAIN g = StreamIds /\ DOMAIN h = StreamIds /\ IsFiniteSet(StreamIds)
      /\ (\A t \in StreamIds : g[t] \in Int /\ h[t] \in Int) BY <1>1, InQueuesType, JsAssumption
<1>3. \A t \in StreamIds : t # s => h[t] = g[t] BY <1>1 DEF Buffered
<1>4. SumFunction(g) = SumFunctionOnSet(g, StreamIds) /\ SumFunction(h) = SumFunctionOnSet(h, StreamIds)
  BY <1>2, SumIsTotal
<1>5. SumFunctionOnSet(h, StreamIds) = SumFunctionOnSet(g, StreamIds) + (h[s] - g[s]) BY <1>2, <1>3, TotalUpdate
<1>. QED BY <1>1, <1>4, <1>5 DEF InQueues

\* What is missing is a number.
LEMMA MissingType ==
  ASSUME NEW x \in Session
  PROVE  /\ x.data.offset \in Int /\ x.data.consumed \in Int /\ x.data.max \in Int /\ ConnWindow \in Int
         /\ InQueues(x) \in Nat /\ Missing(x) \in Int
<1>1. x.data \in Data BY DEF Session
<1>2. /\ x.data.offset \in Int /\ x.data.consumed \in Int /\ x.data.max \in Int /\ ConnWindow \in Int
  BY <1>1, JsAssumption DEF Data
<1>. QED BY <1>2, InQueuesType DEF Missing

\* What is missing stays missing, and nothing else is.
LEMMA DataInvMoves ==
  ASSUME NEW x, NEW y, DataInv(x), y.closed = x.closed, Missing(y) = Missing(x), Windowed(x) => Windowed(y)
  PROVE  DataInv(y)
BY DEF DataInv

\* RecvStream.error: the bytes in the queue are the bytes it says it discarded.
LEMMA ErroredDoes ==
  ASSUME NEW x \in Session, NEW s \in StreamIds, NEW z, z = Errored(x, s)
  PROVE  /\ z \in Session /\ SendSame(x, z) /\ AdmitSame(x, z) /\ z.data = x.data
         /\ Discarded(x, s) \in Nat /\ InQueues(z) = InQueues(x) - Discarded(x, s)
<1>1. CASE x.recv[s].error
  <2>1. z = x /\ Discarded(x, s) = 0 BY <1>1 DEF Errored, Discarded
  <2>. QED BY <2>1, InQueuesType, SameIsTransitive
<1>2. CASE ~x.recv[s].error
  <2>1. PICK n : n = Buffered(x.recv[s]) OBVIOUS
  <2>2. n \in Nat /\ x.recv \in [StreamIds -> Recv] /\ x.recv[s] \in Recv BY <2>1, InQueuesType DEF Session
  <2>a. PICK c : c = <<>> OBVIOUS
  <2>b. c \in Seq(Nat) BY <2>a
  <2>3. PICK v : v = [x.recv[s] EXCEPT !.error = TRUE, !.queue = c] OBVIOUS
  <2>4. v \in Recv /\ v.queue = c /\ v.accepted = x.recv[s].accepted
        /\ v.terminal = x.recv[s].terminal /\ v.replenished = x.recv[s].replenished BY <2>2, <2>3, <2>b DEF Recv
  <2>5. PICK u : u = [x.recv EXCEPT ![s] = v] OBVIOUS
  <2>6. u \in [StreamIds -> Recv] /\ u[s] = v /\ \A t \in StreamIds : t # s => u[t] = x.recv[t] BY <2>2, <2>4, <2>5
  <2>7. z = [x EXCEPT !.recv = u]
    <3>1. PICK b : b = [x EXCEPT !.recv[s].error = TRUE, !.recv[s].queue = <<>>] OBVIOUS
    <3>2. b = [x EXCEPT !.recv = u] BY <2>2, <2>3, <2>5, <2>a, <3>1 DEF Session, Recv
    <3>. QED BY <1>2, <3>1, <3>2, Zenon DEF Errored
  <2>8. z \in Session BY <2>6, <2>7 DEF Session
  <2>9. SendSame(x, z) /\ z.recv = u /\ z.data = x.data BY <2>7 DEF Session, SendSame
  <2>10. AdmitSame(x, z)
    <3>1. /\ z.me = x.me /\ z.closed = x.closed /\ z.recorded = x.recorded /\ z.pending = x.pending
          /\ z.recvStreams = x.recvStreams /\ z.quota = x.quota BY <2>7 DEF Session
    <3>. QED BY <2>4, <2>6, <2>9, <3>1 DEF AdmitSame
  <2>11. Buffered(z.recv[s]) = 0
    <3>1. z.recv[s].queue = <<>> BY <2>4, <2>6, <2>9, <2>a
    <3>2. <<>> \in Seq(Int) OBVIOUS
    <3>. QED BY <3>1, <3>2, SumType DEF Buffered
  <2>12. InQueues(z) = InQueues(x) + (Buffered(z.recv[s]) - n) BY <2>1, <2>6, <2>8, <2>9, InQueuesMoves
  <2>13. Discarded(x, s) = n BY <1>2, <2>1 DEF Discarded
  <2>. QED BY <2>2, <2>8, <2>9, <2>10, <2>11, <2>12, <2>13, InQueuesType
<1>. QED BY <1>1, <1>2

\* Bytes out of a queue and counted as consumed are not missing.
LEMMA AccountedDoes ==
  ASSUME NEW x \in Session, NEW z \in Session, NEW n \in Nat, NEW y, y = AccountConnConsumed(z, n),
         x.closed = z.closed, z.data.consumed = x.data.consumed, z.data.max = x.data.max,
         z.data.offset - InQueues(z) = (x.data.offset - InQueues(x)) + n
  PROVE  /\ y \in Session /\ SendSame(z, y) /\ AdmitSame(z, y) /\ y.recv = z.recv
         /\ DataInv(x) => DataInv(y)
<1>1. /\ y \in Session /\ SendSame(z, y) /\ AdmitSame(z, y) /\ y.recv = z.recv
      /\ y.data.offset = z.data.offset /\ y.data.consumed = z.data.consumed + n
      /\ z.data.max <= z.data.consumed + ConnWindow => y.data.max <= y.data.consumed + ConnWindow
  BY AccountConnConsumedDoes
<1>2. InQueues(y) = InQueues(z) BY <1>1 DEF InQueues
<1>a. x.data.offset \in Int /\ x.data.consumed \in Int /\ InQueues(x) \in Int BY MissingType
<1>b. z.data.offset \in Int /\ InQueues(z) \in Int BY MissingType
<1>c. y.data.offset = z.data.offset /\ y.data.consumed = x.data.consumed + n BY <1>1
<1>d. y.data.offset - (y.data.consumed + InQueues(y)) = x.data.offset - (x.data.consumed + InQueues(x))
  BY <1>2, <1>a, <1>b, <1>c
<1>3. Missing(y) = Missing(x) BY <1>d DEF Missing
<1>4. Windowed(x) => Windowed(y) BY <1>1 DEF Windowed
<1>5. y.closed = x.closed BY <1>1 DEF AdmitSame
<1>. QED BY <1>1, <1>3, <1>4, <1>5, DataInvMoves

\* A receive side fails: what was in the queue counts as consumed.
LEMMA ErrorRecvDoes ==
  ASSUME NEW x \in Session, NEW s \in StreamIds
  PROVE  LET y == ErrorRecv(x, s) IN
         /\ y \in Session /\ SendSame(x, y) /\ AdmitSame(x, y)
         /\ DataInv(x) => DataInv(y)
<1>1. PICK z, y, n : z = Errored(x, s) /\ n = Discarded(x, s) /\ y = ErrorRecv(x, s) OBVIOUS
<1>2. /\ z \in Session /\ SendSame(x, z) /\ AdmitSame(x, z) /\ z.data = x.data
      /\ n \in Nat /\ InQueues(z) = InQueues(x) - n BY <1>1, ErroredDoes
<1>3. y = AccountConnConsumed(z, n) BY <1>1 DEF ErrorRecv
<1>4. z.data.offset - InQueues(z) = (x.data.offset - InQueues(x)) + n /\ x.closed = z.closed
  BY <1>2, MissingType DEF AdmitSame
<1>5. /\ y \in Session /\ SendSame(z, y) /\ AdmitSame(z, y) /\ (DataInv(x) => DataInv(y))
  BY <1>2, <1>3, <1>4, AccountedDoes
<1>. QED BY <1>1, <1>2, <1>5, SameIsTransitive

(************************* operators of the send side **********************)

\* What the scheduler and the names of streams look at.
Rest(x, y) ==
  /\ y.me = x.me /\ y.closed = x.closed /\ y.next = x.next /\ y.recorded = x.recorded
  /\ y.ready = x.ready /\ y.inflight = x.inflight
\* Writers are woken, and nothing else happens to them.
OnlyWakes(x, y) ==
  \A s \in StreamIds : /\ y.writer[s].at = x.writer[s].at /\ y.writer[s].left = x.writer[s].left
                       /\ y.writer[s].held = x.writer[s].held
                       /\ x.writer[s].woken => y.writer[s].woken

\* Waking writers and moving the connection's credit by what was paid keeps the
\* sending half in order, provided nobody sleeps over credit.
LEMMA WakesKeep ==
  ASSUME NEW x \in Session, NEW y \in Session, NEW p \in Int, NEW q \in Int,
         x.closed = "open", SendInv(x, p), Rest(x, y), OnlyWakes(x, y),
         y.conn.used = x.conn.used + (q - p), Sleepless(y)
  PROVE  SendInv(y, q)
<1>1. Named(x) /\ Framed(x) /\ Hands(x) /\ Conserved(x, p) BY DEF SendInv
<1>2. Named(y) BY <1>1 DEF Named, Rest, OnlyWakes
<1>3. Framed(y)
  <2>1. \A i \in DOMAIN x.ready : x.ready[i].id \in StreamIds
    <3>1. x.ready \in Seq(StreamFrame) BY DEF Session
    <3>2. \A i \in DOMAIN x.ready : x.ready[i] \in StreamFrame BY <3>1
    <3>. QED BY <3>2 DEF StreamFrame
  <2>2. x.inflight # <<>> => x.inflight[1].id \in StreamIds
    <3>1. x.inflight \in Seq(StreamFrame) BY DEF Session
    <3>2. x.inflight # <<>> => x.inflight[1] \in StreamFrame BY <3>1
    <3>. QED BY <3>2 DEF StreamFrame
  <2>. QED BY <1>1, <2>1, <2>2 DEF Framed, Matches, Rest, OnlyWakes
<1>4. Hands(y) BY <1>1 DEF Hands, OnlyWakes
<1>5. Conserved(y, q)
  <2>1. [s \in StreamIds |-> Claimed(y.writer[s])] = [s \in StreamIds |-> Claimed(x.writer[s])]
    BY DEF OnlyWakes, Claimed
  <2>2. PICK c : c = SumFunction([s \in StreamIds |-> Claimed(x.writer[s])]) OBVIOUS
  <2>3. x.conn.used = p + c BY <1>1, <2>2 DEF Conserved
  <2>4. c \in Int
    <3>1. PICK g : g = [s \in StreamIds |-> Claimed(x.writer[s])] OBVIOUS
    <3>2. \A s \in StreamIds : Claimed(x.writer[s]) \in Int BY DEF Session, Writer, Claimed
    <3>3. DOMAIN g = StreamIds /\ IsFiniteSet(StreamIds) /\ \A s \in StreamIds : g[s] \in Int
      BY <3>1, <3>2, JsAssumption
    <3>4. SumFunction(g) = SumFunctionOnSet(g, StreamIds) BY <3>3, SumIsTotal
    <3>. QED BY <2>2, <3>1, <3>3, <3>4, TotalType
  <2>5. y.conn.used = q + c BY <2>3, <2>4
  <2>. QED BY <2>1, <2>2, <2>5 DEF Conserved
<1>. QED BY <1>2, <1>3, <1>4, <1>5 DEF SendInv

\* Credit.#wake.
LEMMA WakeConnDoes ==
  ASSUME NEW x \in Session
  PROVE  LET y == WakeConn(x) IN
         /\ y \in Session /\ RecvSame(x, y) /\ Rest(x, y) /\ OnlyWakes(x, y) /\ y.conn = x.conn /\ y.flow = x.flow
         /\ \A s \in StreamIds : y.writer[s].at = "conn" => y.writer[s].woken
<1>1. PICK u : u = [s \in StreamIds |-> IF x.writer[s].at = "conn" THEN [x.writer[s] EXCEPT !.woken = TRUE] ELSE x.writer[s]]
  OBVIOUS
<1>2. \A s \in StreamIds : x.writer[s] \in Writer BY DEF Session
<1>3. ASSUME NEW s \in StreamIds
      PROVE  /\ u[s] \in Writer /\ u[s].at = x.writer[s].at /\ u[s].left = x.writer[s].left
             /\ u[s].held = x.writer[s].held /\ (x.writer[s].woken => u[s].woken)
             /\ (u[s].at = "conn" => u[s].woken)
  <2>1. PICK v : v = [x.writer[s] EXCEPT !.woken = TRUE] OBVIOUS
  <2>2. /\ v \in Writer /\ v.at = x.writer[s].at /\ v.left = x.writer[s].left
        /\ v.held = x.writer[s].held /\ v.woken BY <1>2, <2>1 DEF Writer
  <2>3. u[s] = IF x.writer[s].at = "conn" THEN v ELSE x.writer[s] BY <1>1, <2>1
  <2>. QED BY <1>2, <2>2, <2>3
<1>4. u \in [StreamIds -> Writer] BY <1>1, <1>3
<1>5. PICK y : y = WakeConn(x) OBVIOUS
<1>6. y = [x EXCEPT !.writer = u] BY <1>1, <1>5 DEF WakeConn
<1>7. y \in Session /\ y.writer = u BY <1>4, <1>6 DEF Session
<1>8. RecvSame(x, y) /\ Rest(x, y) /\ y.conn = x.conn /\ y.flow = x.flow
  BY <1>6 DEF Session, RecvSame, DataSame, AdmitSame, Rest
<1>9. OnlyWakes(x, y) /\ \A s \in StreamIds : y.writer[s].at = "conn" => y.writer[s].woken BY <1>3, <1>7 DEF OnlyWakes
<1>. QED BY <1>5, <1>7, <1>8, <1>9

\* Credit.#wake on a stream wakes its writer if it waits there.
LEMMA WakeStreamDoes ==
  ASSUME NEW x \in Session, NEW s \in StreamIds
  PROVE  LET y == WakeStream(x, s) IN
         /\ y \in Session /\ RecvSame(x, y) /\ Rest(x, y) /\ OnlyWakes(x, y) /\ y.conn = x.conn /\ y.flow = x.flow
         /\ y.writer[s].at = "stream" => y.writer[s].woken
<1>1. CASE x.writer[s].at = "stream"
  <2>1. PICK v : v = [x.writer[s] EXCEPT !.woken = TRUE] OBVIOUS
  <2>2. x.writer \in [StreamIds -> Writer] /\ x.writer[s] \in Writer BY DEF Session
  <2>3. /\ v \in Writer /\ v.at = x.writer[s].at /\ v.left = x.writer[s].left
        /\ v.held = x.writer[s].held /\ v.woken BY <2>1, <2>2 DEF Writer
  <2>4. PICK u : u = [x.writer EXCEPT ![s] = v] OBVIOUS
  <2>5. u \in [StreamIds -> Writer] /\ u[s] = v /\ \A t \in StreamIds : t # s => u[t] = x.writer[t] BY <2>2, <2>3, <2>4
  <2>6. PICK y : y = WakeStream(x, s) OBVIOUS
  <2>7. y = [x EXCEPT !.writer = u] BY <1>1, <2>1, <2>4, <2>6 DEF WakeStream
  <2>8. y \in Session /\ y.writer = u BY <2>5, <2>7 DEF Session
  <2>9. RecvSame(x, y) /\ Rest(x, y) /\ y.conn = x.conn /\ y.flow = x.flow
    BY <2>7 DEF Session, RecvSame, DataSame, AdmitSame, Rest
  <2>10. OnlyWakes(x, y) BY <2>3, <2>5, <2>8 DEF OnlyWakes
  <2>. QED BY <2>3, <2>5, <2>6, <2>8, <2>9, <2>10
<1>2. CASE x.writer[s].at # "stream"
  <2>1. WakeStream(x, s) = x BY <1>2 DEF WakeStream
  <2>2. RecvSame(x, x) /\ Rest(x, x) /\ OnlyWakes(x, x) BY SameIsTransitive DEF RecvSame, Rest, OnlyWakes
  <2>. QED BY <1>2, <2>1, <2>2
<1>. QED BY <1>1, <1>2

\* A field of the two credits that a wake-up follows.
LEMMA CreditPut ==
  ASSUME NEW x \in Session, NEW c \in CreditRecord
  PROVE  LET y == [x EXCEPT !.conn = c] IN
         /\ y \in Session /\ RecvSame(x, y) /\ Rest(x, y) /\ y.conn = c /\ y.flow = x.flow /\ y.writer = x.writer
<1>1. PICK y : y = [x EXCEPT !.conn = c] OBVIOUS
<1>2. y \in Session BY <1>1 DEF Session
<1>3. RecvSame(x, y) /\ Rest(x, y) /\ y.conn = c /\ y.flow = x.flow /\ y.writer = x.writer
  BY <1>1 DEF Session, RecvSame, DataSame, AdmitSame, Rest
<1>. QED BY <1>1, <1>2, <1>3

\* Replacing the flow records touches nothing else.
LEMMA FlowPut ==
  ASSUME NEW x \in Session, NEW u \in [StreamIds -> Flow]
  PROVE  LET y == [x EXCEPT !.flow = u] IN
         /\ y \in Session /\ RecvSame(x, y) /\ Rest(x, y) /\ y.conn = x.conn /\ y.flow = u /\ y.writer = x.writer
<1>1. PICK y : y = [x EXCEPT !.flow = u] OBVIOUS
<1>2. y \in Session BY <1>1 DEF Session
<1>3. RecvSame(x, y) /\ Rest(x, y) /\ y.conn = x.conn /\ y.flow = u /\ y.writer = x.writer
  BY <1>1 DEF Session, RecvSame, DataSame, AdmitSame, Rest
<1>. QED BY <1>1, <1>2, <1>3

\* Steps that only wake compose.
LEMMA WakesCompose ==
  ASSUME NEW x, NEW y, NEW z
  PROVE  /\ RecvSame(x, x) /\ Rest(x, x) /\ OnlyWakes(x, x)
         /\ RecvSame(x, y) /\ RecvSame(y, z) => RecvSame(x, z)
         /\ Rest(x, y) /\ Rest(y, z) => Rest(x, z)
         /\ OnlyWakes(x, y) /\ OnlyWakes(y, z) => OnlyWakes(x, z)
         /\ y.writer = x.writer => OnlyWakes(x, y)
BY DEF RecvSame, DataSame, AdmitSame, Rest, OnlyWakes

\* Credit of the connection moves to c, and those who wait for it are woken.
LEMMA ConnMoves ==
  ASSUME NEW x \in Session, NEW c \in CreditRecord
  PROVE  LET y == WakeConn([x EXCEPT !.conn = c]) IN
         /\ y \in Session /\ RecvSame(x, y) /\ Rest(x, y) /\ OnlyWakes(x, y) /\ y.conn = c /\ y.flow = x.flow
         /\ x.closed = "open" /\ Sleepless(x) => Sleepless(y)
<1>1. PICK z, y : z = [x EXCEPT !.conn = c] /\ y = WakeConn(z) OBVIOUS
<1>2. /\ z \in Session /\ RecvSame(x, z) /\ Rest(x, z) /\ z.conn = c
      /\ z.flow = x.flow /\ z.writer = x.writer BY <1>1, CreditPut
<1>3. /\ y \in Session /\ RecvSame(z, y) /\ Rest(z, y) /\ OnlyWakes(z, y) /\ y.conn = z.conn /\ y.flow = z.flow
      /\ \A s \in StreamIds : y.writer[s].at = "conn" => y.writer[s].woken BY <1>1, <1>2, WakeConnDoes
<1>4. RecvSame(x, y) /\ Rest(x, y) /\ OnlyWakes(x, y)
  <2>1. OnlyWakes(x, z) BY <1>2, WakesCompose
  <2>. QED BY <1>2, <1>3, <2>1, WakesCompose
<1>5. Sleepless(x) => Sleepless(y) BY <1>2, <1>3, <1>4 DEF Sleepless, OnlyWakes
<1>. QED BY <1>1, <1>2, <1>3, <1>4, <1>5

\* Releasing connection credit wakes who waits for it.
LEMMA ReleaseConnDoes ==
  ASSUME NEW x \in Session, NEW n \in Int
  PROVE  LET y == ReleaseConn(x, n) IN
         /\ y \in Session /\ RecvSame(x, y) /\ Rest(x, y) /\ OnlyWakes(x, y) /\ y.flow = x.flow
         /\ n <= x.conn.used => y.conn.used = x.conn.used - n
         /\ x.closed = "open" /\ Sleepless(x) => Sleepless(y)
<1>1. x.conn \in CreditRecord /\ x.conn.used \in Int BY DEF Session, CreditRecord
<1>2. CASE n = 0 BY <1>1, <1>2, WakesCompose DEF ReleaseConn
<1>3. CASE n # 0
  <2>1. PICK c : c = [x.conn EXCEPT !.used = IF @ > n THEN @ - n ELSE 0] OBVIOUS
  <2>2. c \in CreditRecord /\ (n <= x.conn.used => c.used = x.conn.used - n)
    <3>1. PICK m : m = IF x.conn.used > n THEN x.conn.used - n ELSE 0 OBVIOUS
    <3>2. m \in Int /\ (n <= x.conn.used => m = x.conn.used - n) BY <1>1, <3>1
    <3>3. c = [x.conn EXCEPT !.used = m] BY <2>1, <3>1
    <3>. QED BY <1>1, <3>2, <3>3 DEF CreditRecord
  <2>3. ReleaseConn(x, n) = WakeConn([x EXCEPT !.conn = c]) BY <1>3, <2>1 DEF ReleaseConn
  <2>. QED BY <2>2, <2>3, ConnMoves
<1>. QED BY <1>2, <1>3

\* MAX_DATA wakes who waits for connection credit.
LEMMA IncreaseConnDoes ==
  ASSUME NEW x \in Session, NEW m \in Int
  PROVE  LET y == IncreaseConn(x, m) IN
         /\ y \in Session /\ RecvSame(x, y) /\ Rest(x, y) /\ OnlyWakes(x, y) /\ y.flow = x.flow
         /\ y.conn.used = x.conn.used
         /\ x.closed = "open" /\ Sleepless(x) => Sleepless(y)
<1>1. x.conn \in CreditRecord BY DEF Session
<1>2. CASE m <= x.conn.max BY <1>2, WakesCompose DEF IncreaseConn
<1>3. CASE ~(m <= x.conn.max)
  <2>1. PICK c : c = [x.conn EXCEPT !.max = m] OBVIOUS
  <2>2. c \in CreditRecord /\ c.used = x.conn.used BY <1>1, <2>1 DEF CreditRecord
  <2>3. IncreaseConn(x, m) = WakeConn([x EXCEPT !.conn = c]) BY <1>3, <2>1 DEF IncreaseConn
  <2>. QED BY <2>2, <2>3, ConnMoves
<1>. QED BY <1>2, <1>3

\* Credit of a stream moves to f, and who waits for it is woken.
LEMMA StreamMoves ==
  ASSUME NEW x \in Session, NEW s \in StreamIds, NEW f \in Flow,
         NEW u, u = [x.flow EXCEPT ![s] = f], NEW y, y = WakeStream([x EXCEPT !.flow = u], s)
  PROVE  /\ y \in Session /\ RecvSame(x, y) /\ Rest(x, y) /\ OnlyWakes(x, y) /\ y.conn = x.conn /\ y.flow = u
         /\ x.closed = "open" /\ Sleepless(x) => Sleepless(y)
<1>1. PICK z : z = [x EXCEPT !.flow = u] OBVIOUS
<1>a. y = WakeStream(z, s) BY <1>1
<1>2. x.flow \in [StreamIds -> Flow] BY DEF Session
<1>3. u \in [StreamIds -> Flow] /\ \A t \in StreamIds : t # s => u[t] = x.flow[t] BY <1>1, <1>2
<1>4. /\ z \in Session /\ RecvSame(x, z) /\ Rest(x, z) /\ z.conn = x.conn
      /\ z.flow = u /\ z.writer = x.writer BY <1>1, <1>3, FlowPut
<1>5. /\ y \in Session /\ RecvSame(z, y) /\ Rest(z, y) /\ OnlyWakes(z, y)
      /\ y.conn = z.conn /\ y.flow = z.flow /\ (y.writer[s].at = "stream" => y.writer[s].woken)
  BY <1>a, <1>4, WakeStreamDoes
<1>6. RecvSame(x, y) /\ Rest(x, y) /\ OnlyWakes(x, y)
  <2>1. OnlyWakes(x, z) BY <1>4, WakesCompose
  <2>. QED BY <1>4, <1>5, <2>1, WakesCompose
<1>7. Sleepless(x) => Sleepless(y) BY <1>3, <1>4, <1>5, <1>6 DEF Sleepless, OnlyWakes
<1>. QED BY <1>1, <1>4, <1>5, <1>6, <1>7

\* Releasing stream credit wakes who waits for it.
LEMMA ReleaseStreamDoes ==
  ASSUME NEW x \in Session, NEW s \in StreamIds, NEW n \in Int
  PROVE  LET y == ReleaseStream(x, s, n) IN
         /\ y \in Session /\ RecvSame(x, y) /\ Rest(x, y) /\ OnlyWakes(x, y) /\ y.conn = x.conn
         /\ x.closed = "open" /\ Sleepless(x) => Sleepless(y)
<1>1. x.flow \in [StreamIds -> Flow] /\ x.flow[s] \in Flow /\ x.flow[s].used \in Int BY DEF Session, Flow
<1>2. CASE n = 0 \/ s \notin x.streamFlow BY <1>2, WakesCompose DEF ReleaseStream
<1>3. CASE ~(n = 0 \/ s \notin x.streamFlow)
  <2>1. PICK m : m = IF x.flow[s].used > n THEN x.flow[s].used - n ELSE 0 OBVIOUS
  <2>2. m \in Int BY <1>1, <2>1
  <2>3. PICK f : f = [x.flow[s] EXCEPT !.used = m] OBVIOUS
  <2>4. f \in Flow BY <1>1, <2>2, <2>3 DEF Flow
  <2>5. ReleaseStream(x, s, n) = WakeStream([x EXCEPT !.flow[s] = f], s) BY <1>3, <2>1, <2>3 DEF ReleaseStream
  <2>6. PICK y : y = ReleaseStream(x, s, n) OBVIOUS
  <2>7. /\ y \in Session /\ RecvSame(x, y) /\ Rest(x, y) /\ OnlyWakes(x, y) /\ y.conn = x.conn
        /\ x.closed = "open" /\ Sleepless(x) => Sleepless(y)
    <3>1. PICK u : u = [x.flow EXCEPT ![s] = f] OBVIOUS
    <3>2. y = WakeStream([x EXCEPT !.flow = u], s) BY <2>5, <2>6, <3>1
    <3>. QED BY <2>4, <3>1, <3>2, StreamMoves
  <2>. QED BY <2>6, <2>7
<1>. QED BY <1>2, <1>3

\* MAX_STREAM_DATA wakes who waits for the stream's credit.
LEMMA IncreaseStreamDoes ==
  ASSUME NEW x \in Session, NEW s \in StreamIds, NEW m \in Int
  PROVE  LET y == IncreaseStream(x, s, m) IN
         /\ y \in Session /\ RecvSame(x, y) /\ Rest(x, y) /\ OnlyWakes(x, y) /\ y.conn = x.conn
         /\ x.closed = "open" /\ Sleepless(x) => Sleepless(y)
<1>1. x.flow \in [StreamIds -> Flow] /\ x.flow[s] \in Flow BY DEF Session
<1>2. CASE s \notin x.streamFlow \/ m <= x.flow[s].max BY <1>2, WakesCompose DEF IncreaseStream
<1>3. CASE ~(s \notin x.streamFlow \/ m <= x.flow[s].max)
  <2>3. PICK f : f = [x.flow[s] EXCEPT !.max = m] OBVIOUS
  <2>4. f \in Flow BY <1>1, <2>3 DEF Flow
  <2>5. IncreaseStream(x, s, m) = WakeStream([x EXCEPT !.flow[s] = f], s) BY <1>3, <2>3 DEF IncreaseStream
  <2>6. PICK y : y = IncreaseStream(x, s, m) OBVIOUS
  <2>7. /\ y \in Session /\ RecvSame(x, y) /\ Rest(x, y) /\ OnlyWakes(x, y) /\ y.conn = x.conn
        /\ x.closed = "open" /\ Sleepless(x) => Sleepless(y)
    <3>1. PICK u : u = [x.flow EXCEPT ![s] = f] OBVIOUS
    <3>2. y = WakeStream([x EXCEPT !.flow = u], s) BY <2>5, <2>6, <3>1
    <3>. QED BY <2>4, <3>1, <3>2, StreamMoves
  <2>. QED BY <2>6, <2>7
<1>. QED BY <1>2, <1>3

NoFrame(x, s) ==
  /\ \A i \in DOMAIN x.ready : x.ready[i].id # s
  /\ x.inflight # <<>> => x.inflight[1].id # s
\* The writer of s has failed, and nothing else that the sending side looks at changed.
Failed(x, y, s) ==
  /\ Rest(x, y) /\ y.conn = x.conn
  /\ \A t \in StreamIds : y.flow[t].max = x.flow[t].max /\ y.flow[t].used = x.flow[t].used
  /\ \A t \in StreamIds : t # s => y.writer[t] = x.writer[t]
  /\ y.writer[s].at = "failed" /\ y.writer[s].held = 0

\* The scheduler's queues hold frames of known streams.
LEMMA FrameTypes ==
  ASSUME NEW x \in Session
  PROVE  /\ \A i \in DOMAIN x.ready : x.ready[i] \in StreamFrame /\ x.ready[i].id \in StreamIds
         /\ x.inflight # <<>> => x.inflight[1] \in StreamFrame /\ x.inflight[1].id \in StreamIds
<1>1. x.ready \in Seq(StreamFrame) /\ x.inflight \in Seq(StreamFrame) BY DEF Session
<1>2. /\ \A i \in DOMAIN x.ready : x.ready[i] \in StreamFrame
      /\ x.inflight # <<>> => x.inflight[1] \in StreamFrame BY <1>1
<1>. QED BY <1>2 DEF StreamFrame

\* A writer that is neither queued nor closing has no frame in the scheduler.
LEMMA IdleHasNoFrame ==
  ASSUME NEW x \in Session, Framed(x), NEW s \in StreamIds, x.writer[s].at \notin {"queued", "closing"}
  PROVE  NoFrame(x, s)
BY DEF Framed, Matches, NoFrame

\* A writer without a frame may change freely.
LEMMA FramedSame ==
  ASSUME NEW x \in Session, NEW y \in Session, NEW s \in StreamIds, Framed(x), NoFrame(x, s),
         y.ready = x.ready, y.inflight = x.inflight, \A t \in StreamIds : t # s => y.writer[t] = x.writer[t]
  PROVE  Framed(y) /\ NoFrame(y, s)
<1>1. \A f \in StreamFrame : f.id # s /\ f.id \in StreamIds /\ Matches(x, f) => Matches(y, f) BY DEF Matches
<1>2. \A i \in DOMAIN y.ready : Matches(y, y.ready[i]) BY <1>1, FrameTypes DEF Framed, NoFrame
<1>3. y.inflight # <<>> => Matches(y, y.inflight[1]) BY <1>1, FrameTypes DEF Framed, NoFrame
<1>. QED BY <1>2, <1>3 DEF Framed, NoFrame

\* A writer without a frame may queue one.
LEMMA FramedAppend ==
  ASSUME NEW x \in Session, NEW y \in Session, NEW s \in StreamIds, Framed(x), NoFrame(x, s),
         NEW f \in StreamFrame, f.id = s, Matches(y, f),
         y.ready = Append(x.ready, f), y.inflight = x.inflight,
         \A t \in StreamIds : t # s => y.writer[t] = x.writer[t]
  PROVE  Framed(y)
<1>1. \A g \in StreamFrame : g.id # s /\ g.id \in StreamIds /\ Matches(x, g) => Matches(y, g) BY DEF Matches
<1>2. PICK k \in Nat : k = Len(x.ready) BY DEF Session
<1>3. x.ready \in Seq(StreamFrame) BY DEF Session
<1>4. DOMAIN x.ready = 1..k /\ DOMAIN y.ready = 1..k + 1 /\ y.ready[k + 1] = f
      /\ \A i \in 1..k : y.ready[i] = x.ready[i] BY <1>2, <1>3
<1>5. \A i \in 1..k + 1 : i = k + 1 \/ i \in 1..k BY <1>2
<1>6. \A i \in 1..k : x.ready[i] \in StreamFrame /\ x.ready[i].id \in StreamIds
                      /\ x.ready[i].id # s /\ Matches(x, x.ready[i]) BY <1>4, FrameTypes DEF Framed, NoFrame
<1>7. \A i \in DOMAIN y.ready : Matches(y, y.ready[i]) BY <1>1, <1>4, <1>5, <1>6
<1>8. \A i, j \in DOMAIN y.ready : y.ready[i].id = y.ready[j].id => i = j BY <1>4, <1>5, <1>6 DEF Framed
<1>9. y.inflight # <<>> => /\ y.inflight = <<y.inflight[1]>> /\ Matches(y, y.inflight[1])
                           /\ \A i \in DOMAIN y.ready : y.ready[i].id # y.inflight[1].id
  <2>. SUFFICES ASSUME x.inflight # <<>>
                PROVE  /\ x.inflight = <<x.inflight[1]>> /\ Matches(y, x.inflight[1])
                       /\ \A i \in DOMAIN y.ready : y.ready[i].id # x.inflight[1].id OBVIOUS
  <2>1. x.inflight = <<x.inflight[1]>> /\ x.inflight[1].id # s /\ Matches(x, x.inflight[1])
        /\ \A i \in 1..k : x.ready[i].id # x.inflight[1].id BY <1>4 DEF Framed, NoFrame
  <2>2. Matches(y, x.inflight[1]) BY <1>1, <2>1, FrameTypes
  <2>. QED BY <1>4, <1>5, <2>1, <2>2
<1>. QED BY <1>7, <1>8, <1>9 DEF Framed

\* Credit in the writers' hands.
InHands(x) == SumFunction([s \in StreamIds |-> Claimed(x.writer[s])])

\* When one writer changes, the credit in all hands moves by the change of its.
LEMMA InHandsMoves ==
  ASSUME NEW x \in Session, NEW y \in Session, NEW s \in StreamIds,
         \A t \in StreamIds : t # s => y.writer[t] = x.writer[t]
  PROVE  /\ InHands(x) \in Int /\ Claimed(x.writer[s]) \in Int /\ Claimed(y.writer[s]) \in Int
         /\ InHands(y) = InHands(x) + (Claimed(y.writer[s]) - Claimed(x.writer[s]))
         /\ Hands(x) => Claimed(x.writer[s]) >= 0 /\ Claimed(x.writer[s]) <= InHands(x)
<1>1. PICK g, h : g = [t \in StreamIds |-> Claimed(x.writer[t])] /\ h = [t \in StreamIds |-> Claimed(y.writer[t])]
  OBVIOUS
<1>2. \A t \in StreamIds : Claimed(x.writer[t]) \in Int /\ Claimed(y.writer[t]) \in Int
  <2>1. \A t \in StreamIds : x.writer[t] \in Writer /\ y.writer[t] \in Writer BY DEF Session
  <2>. QED BY <2>1 DEF Writer, Claimed
<1>3. DOMAIN g = StreamIds /\ DOMAIN h = StreamIds /\ IsFiniteSet(StreamIds)
      /\ (\A t \in StreamIds : g[t] \in Int /\ h[t] \in Int) BY <1>1, <1>2, JsAssumption
<1>4. \A t \in StreamIds : t # s => h[t] = g[t] BY <1>1
<1>5. SumFunction(g) = SumFunctionOnSet(g, StreamIds) /\ SumFunction(h) = SumFunctionOnSet(h, StreamIds)
  BY <1>3, SumIsTotal
<1>6. SumFunctionOnSet(h, StreamIds) = SumFunctionOnSet(g, StreamIds) + (h[s] - g[s]) BY <1>3, <1>4, TotalUpdate
<1>7. SumFunctionOnSet(g, StreamIds) \in Int BY <1>3, TotalType
<1>8. ASSUME Hands(x) PROVE g[s] >= 0 /\ g[s] <= SumFunctionOnSet(g, StreamIds)
  <2>1. \A t \in StreamIds : Claimed(x.writer[t]) >= 0 BY <1>2, <1>8 DEF Hands, Claimed
  <2>2. \A t \in StreamIds : g[t] \in Nat BY <1>1, <1>2, <2>1
  <2>. QED BY <1>3, <2>2, TotalBounds
<1>. QED BY <1>1, <1>3, <1>5, <1>6, <1>7, <1>8 DEF InHands

\* One writer moves; credit is claimed, not given back.
LEMMA WriterMoves ==
  ASSUME NEW x \in Session, NEW y \in Session, NEW s \in StreamIds, NEW p \in Int, NEW q \in Int,
         x.closed = "open", SendInv(x, p),
         y.me = x.me, y.next = x.next, y.recorded = x.recorded,
         y.conn.max = x.conn.max, y.conn.used >= x.conn.used,
         \A t \in StreamIds : y.flow[t].max = x.flow[t].max /\ y.flow[t].used >= x.flow[t].used,
         \A t \in StreamIds : t # s => y.writer[t] = x.writer[t],
         y.conn.used = x.conn.used + (q - p) + (Claimed(y.writer[s]) - Claimed(x.writer[s])),
         Framed(y), x.writer[s].at # "none",
         y.writer[s].held >= 0, y.writer[s].at # "queued" => y.writer[s].held = 0,
         y.writer[s].at \in {"stream", "conn", "hold"} => y.writer[s].left > 0,
         y.writer[s].at = "conn" => TryClaim(y.conn, 1) = 0,
         y.writer[s].at = "stream" => TryClaim(y.flow[s], 1) = 0
  PROVE  SendInv(y, q)
<1>1. Named(x) /\ Hands(x) /\ Sleepless(x) /\ Conserved(x, p) BY DEF SendInv
<1>2. Named(y) BY <1>1 DEF Named
<1>3. Hands(y) BY <1>1 DEF Hands
<1>4. Sleepless(y)
  <2>. SUFFICES ASSUME NEW t \in StreamIds, t # s, ~y.writer[t].woken
                PROVE  /\ y.writer[t].at = "conn" => TryClaim(y.conn, 1) = 0
                       /\ y.writer[t].at = "stream" => TryClaim(y.flow[t], 1) = 0 BY DEF Sleepless
  <2>1. y.writer[t] = x.writer[t] OBVIOUS
  <2>2. /\ x.writer[t].at = "conn" => TryClaim(x.conn, 1) = 0
        /\ x.writer[t].at = "stream" => TryClaim(x.flow[t], 1) = 0 BY <1>1, <2>1 DEF Sleepless
  <2>3. x.conn.max \in Int /\ x.conn.used \in Int /\ y.conn.used \in Int
        /\ x.flow[t].max \in Int /\ x.flow[t].used \in Int /\ y.flow[t].used \in Int BY DEF Session, CreditRecord, Flow
  <2>4. TryClaim(x.conn, 1) = 0 => TryClaim(y.conn, 1) = 0 BY <2>3 DEF TryClaim, AtMost
  <2>5. TryClaim(x.flow[t], 1) = 0 => TryClaim(y.flow[t], 1) = 0 BY <2>3 DEF TryClaim, AtMost
  <2>. QED BY <2>1, <2>2, <2>4, <2>5
<1>5. Conserved(y, q)
  <2>1. x.conn.used = p + InHands(x) BY <1>1 DEF Conserved, InHands
  <2>2. y.conn.used = q + InHands(y) BY <2>1, InHandsMoves
  <2>. QED BY <2>2 DEF Conserved, InHands
<1>. QED BY <1>2, <1>3, <1>4, <1>5 DEF SendInv

\* A writer that fails gives up what it claimed, and nobody else notices.
LEMMA FailedKeeps ==
  ASSUME NEW x \in Session, NEW y \in Session, NEW s \in StreamIds, NEW p \in Int,
         x.closed = "open", SendInv(x, p), NoFrame(x, s), x.writer[s].at # "none", Failed(x, y, s)
  PROVE  SendInv(y, p + Claimed(x.writer[s])) /\ NoFrame(y, s)
<1>1. Framed(x) BY DEF SendInv
<1>2. Framed(y) /\ NoFrame(y, s) BY <1>1, FramedSame DEF Failed, Rest
<1>3. PICK q : q = p + Claimed(x.writer[s]) OBVIOUS
<1>4. Claimed(x.writer[s]) \in Int /\ Claimed(y.writer[s]) = 0 BY InHandsMoves DEF Failed, Claimed
<1>5. x.conn.used \in Int /\ \A t \in StreamIds : x.flow[t].used \in Int BY DEF Session, CreditRecord, Flow
<1>6. q \in Int /\ y.conn.used = x.conn.used + (q - p) + (Claimed(y.writer[s]) - Claimed(x.writer[s]))
  BY <1>3, <1>4, <1>5 DEF Failed
<1>7. y.conn.used >= x.conn.used /\ \A t \in StreamIds : y.flow[t].used >= x.flow[t].used BY <1>5 DEF Failed
<1>8. SendInv(y, q)
  <2>1. /\ y.me = x.me /\ y.next = x.next /\ y.recorded = x.recorded /\ y.conn.max = x.conn.max
        /\ \A t \in StreamIds : y.flow[t].max = x.flow[t].max
        /\ \A t \in StreamIds : t # s => y.writer[t] = x.writer[t] BY DEF Failed, Rest
  <2>2. y.writer[s].at = "failed" /\ y.writer[s].held = 0 BY DEF Failed
  <2>. QED BY <1>2, <1>6, <1>7, <2>1, <2>2, WriterMoves
<1>. QED BY <1>2, <1>3, <1>8

\* Deleting a flow record closes its credit only.
LEMMA DropFlowDoes ==
  ASSUME NEW x \in Session, NEW s \in StreamIds
  PROVE  LET y == DropFlow(x, s) IN y \in Session /\ SendSame(x, y) /\ RecvSame(x, y)
<1>1. CASE s \in x.sendStreams \cup x.recvStreams BY <1>1, SameIsTransitive DEF DropFlow, RecvSame
<1>2. CASE ~(s \in x.sendStreams \cup x.recvStreams)
  <2>1. PICK b, v, u, m, y : /\ b = (x.flow[s].shut \/ s \in x.streamFlow) /\ v = [x.flow[s] EXCEPT !.shut = b]
                             /\ u = [x.flow EXCEPT ![s] = v] /\ m = x.streamFlow \ {s} /\ y = DropFlow(x, s) OBVIOUS
  <2>2. x.flow \in [StreamIds -> Flow] /\ x.flow[s] \in Flow /\ m \in SUBSET StreamIds BY <2>1 DEF Session
  <2>3. b \in BOOLEAN BY <2>1, <2>2 DEF Flow
  <2>4. v \in Flow /\ v.max = x.flow[s].max /\ v.used = x.flow[s].used BY <2>1, <2>2, <2>3 DEF Flow
  <2>5. u \in [StreamIds -> Flow]
        /\ \A t \in StreamIds : u[t].max = x.flow[t].max /\ u[t].used = x.flow[t].used BY <2>1, <2>2, <2>4
  <2>6. y = [x EXCEPT !.streamFlow = m, !.flow = u]
    <3>1. y = [x EXCEPT !.streamFlow = x.streamFlow \ {s}, !.flow[s].shut = x.flow[s].shut \/ s \in x.streamFlow]
      BY <1>2, <2>1 DEF DropFlow
    <3>2. y = [x EXCEPT !.streamFlow = m, !.flow[s].shut = b] BY <2>1, <3>1
    <3>. QED BY <2>1, <2>2, <3>2 DEF Session
  <2>7. y \in Session BY <2>2, <2>5, <2>6 DEF Session
  <2>8. SendSame(x, y) BY <2>5, <2>6 DEF Session, SendSame
  <2>9. RecvSame(x, y) BY <2>6 DEF Session, RecvSame, DataSame, AdmitSame
  <2>. QED BY <2>1, <2>7, <2>8, <2>9
<1>. QED BY <1>1, <1>2

\* A writer is replaced by w.
PutWriter(x, s, w) == [x EXCEPT !.writer[s] = w]

\* Replacing one writer touches nothing else.
LEMMA WriterPut ==
  ASSUME NEW x \in Session, NEW s \in StreamIds, NEW w \in Writer, NEW y, y = PutWriter(x, s, w)
  PROVE  /\ y \in Session /\ RecvSame(x, y) /\ Rest(x, y) /\ y.conn = x.conn /\ y.flow = x.flow
         /\ y.writer[s] = w /\ \A t \in StreamIds : t # s => y.writer[t] = x.writer[t]
         /\ y.streamFlow = x.streamFlow /\ y.recvStreams = x.recvStreams
<1>0. PICK u : u = [x.writer EXCEPT ![s] = w] OBVIOUS
<1>1. x.writer \in [StreamIds -> Writer] /\ y = [x EXCEPT !.writer = u] BY <1>0 DEF Session, PutWriter
<1>2. u \in [StreamIds -> Writer] /\ u[s] = w /\ \A t \in StreamIds : t # s => u[t] = x.writer[t] BY <1>0, <1>1
<1>3. y \in Session /\ y.writer = u BY <1>1, <1>2 DEF Session
<1>4. RecvSame(x, y) /\ Rest(x, y) /\ y.conn = x.conn /\ y.flow = x.flow
      /\ y.streamFlow = x.streamFlow /\ y.recvStreams = x.recvStreams
  BY <1>1 DEF Session, RecvSame, DataSame, AdmitSame, Rest
<1>. QED BY <1>2, <1>3, <1>4

\* The abort algorithm fails the writer.
LEMMA AbortAlgorithmDoes ==
  ASSUME NEW x \in Session, NEW s \in StreamIds
  PROVE  LET y == AbortAlgorithm(x, s) IN y \in Session /\ RecvSame(x, y) /\ Failed(x, y, s)
<1>1. PICK f, z, y : /\ f = [type |-> "reset", id |-> s, size |-> SendFinalSize(x, s)]
                     /\ z = SendPriorityFrame(x, f) /\ y = AbortAlgorithm(x, s) OBVIOUS
<1>2. f \in Frame
  <2>1. SendFinalSize(x, s) \in Int BY DEF SendFinalSize, Session, Flow
  <2>. QED BY <1>1, <2>1 DEF Frame
<1>3. z \in Session /\ SendSame(x, z) /\ RecvSame(x, z) BY <1>1, <1>2, SendPriorityFrameDoes
<1>4. z.writer \in [StreamIds -> Writer] /\ z.writer[s] \in Writer /\ z.order \in [StreamIds -> {0, 1}]
      /\ z.sendStreams \in SUBSET StreamIds BY <1>3 DEF Session
<1>0. PICK a, h, b : a = "failed" /\ h = 0 /\ b = FALSE OBVIOUS
<1>00. a \in Phases /\ h \in Int /\ b \in BOOLEAN
  <2>1. a \in Phases BY <1>0 DEF Phases
  <2>2. h \in Int BY <1>0
  <2>3. b \in BOOLEAN BY <1>0
  <2>. QED BY <2>1, <2>2, <2>3
<1>5. PICK v, u, o, m : /\ v = [z.writer[s] EXCEPT !.at = a, !.held = h, !.abort = b]
                        /\ u = [z.writer EXCEPT ![s] = v] /\ o = [z.order EXCEPT ![s] = 0] /\ m = z.sendStreams \ {s}
  OBVIOUS
<1>6a. v \in Writer /\ v.at = a /\ v.held = h BY <1>00, <1>4, <1>5 DEF Writer
<1>6. v \in Writer /\ v.at = "failed" /\ v.held = 0 BY <1>0, <1>6a
<1>7. u \in [StreamIds -> Writer] /\ u[s] = v /\ o \in [StreamIds -> {0, 1}] /\ m \in SUBSET StreamIds
      /\ \A t \in StreamIds : t # s => u[t] = z.writer[t] BY <1>4, <1>5, <1>6
<1>8. PICK w : w = [z EXCEPT !.sendStreams = m, !.order = o, !.writer = u] OBVIOUS
<1>9. y = DropFlow(w, s) BY <1>0, <1>1, <1>5, <1>8 DEF AbortAlgorithm
<1>10. w \in Session /\ w.writer = u BY <1>3, <1>7, <1>8 DEF Session
<1>11. RecvSame(z, w) /\ Rest(z, w) /\ w.conn = z.conn /\ w.flow = z.flow
  BY <1>3, <1>8 DEF Session, RecvSame, DataSame, AdmitSame, Rest
<1>12. y \in Session /\ SendSame(w, y) /\ RecvSame(w, y) BY <1>9, <1>10, DropFlowDoes
<1>13. RecvSame(x, y) BY <1>3, <1>11, <1>12, WakesCompose
<1>14. Failed(x, y, s) BY <1>3, <1>6, <1>7, <1>10, <1>11, <1>12 DEF SendSame, Rest, Failed
<1>. QED BY <1>1, <1>12, <1>13, <1>14

\* A rejected operation fails the writer, through the abort that waited for it too.
LEMMA FailWriterDoes ==
  ASSUME NEW x \in Session, NEW s \in StreamIds
  PROVE  LET y == FailWriter(x, s) IN y \in Session /\ RecvSame(x, y) /\ Failed(x, y, s)
<1>1. CASE x.writer[s].abort BY <1>1, AbortAlgorithmDoes DEF FailWriter
<1>2. CASE ~x.writer[s].abort
  <2>0. PICK a, h, b : a = "failed" /\ h = 0 /\ b = FALSE OBVIOUS
  <2>00. a \in Phases /\ h \in Int /\ b \in BOOLEAN
    <3>1. a \in Phases BY <2>0 DEF Phases
    <3>2. h \in Int BY <2>0
    <3>3. b \in BOOLEAN BY <2>0
    <3>. QED BY <3>1, <3>2, <3>3
  <2>1. PICK w, y : /\ w = [x.writer[s] EXCEPT !.at = a, !.held = h, !.woken = b]
                    /\ y = FailWriter(x, s) OBVIOUS
  <2>2. x.writer[s] \in Writer BY DEF Session
  <2>3a. w \in Writer /\ w.at = a /\ w.held = h BY <2>00, <2>1, <2>2 DEF Writer
  <2>3. w \in Writer /\ w.at = "failed" /\ w.held = 0 BY <2>0, <2>3a
  <2>4. y = PutWriter(x, s, w) BY <1>2, <2>0, <2>1 DEF FailWriter, PutWriter
  <2>5. /\ y \in Session /\ RecvSame(x, y) /\ Rest(x, y) /\ y.conn = x.conn /\ y.flow = x.flow
        /\ y.writer[s] = w /\ \A t \in StreamIds : t # s => y.writer[t] = x.writer[t] BY <2>3a, <2>4, WriterPut
  <2>6. Failed(x, y, s) BY <2>3, <2>5 DEF Failed
  <2>. QED BY <2>1, <2>5, <2>6
<1>. QED BY <1>1, <1>2

\* Deleting the record of a stream fails the writer that is parked on its credit.
LEMMA MaybeDeleteDoes ==
  ASSUME NEW x \in Session, NEW s \in StreamIds
  PROVE  LET y == MaybeDeleteStreamFlow(x, s) IN
         /\ y \in Session /\ RecvSame(x, y)
         /\ SendSame(x, y) \/ (x.writer[s].at = "stream" /\ Failed(x, y, s))
<1>1. PICK z, y : z = DropFlow(x, s) /\ y = MaybeDeleteStreamFlow(x, s) OBVIOUS
<1>2. z \in Session /\ SendSame(x, z) /\ RecvSame(x, z) BY <1>1, DropFlowDoes
<1>3. CASE z.flow[s].shut /\ x.writer[s].at = "stream"
  <2>1. y = FailWriter(z, s) BY <1>1, <1>3 DEF MaybeDeleteStreamFlow
  <2>2. y \in Session /\ RecvSame(z, y) /\ Failed(z, y, s) BY <1>2, <2>1, FailWriterDoes
  <2>3. RecvSame(x, y) BY <1>2, <2>2, WakesCompose
  <2>4. Failed(x, y, s) BY <1>2, <2>2 DEF SendSame, Failed, Rest
  <2>. QED BY <1>1, <1>3, <2>2, <2>3, <2>4
<1>4. CASE ~(z.flow[s].shut /\ x.writer[s].at = "stream")
  <2>1. y = z BY <1>1, <1>4 DEF MaybeDeleteStreamFlow
  <2>. QED BY <1>1, <1>2, <2>1
<1>. QED BY <1>3, <1>4

\* Deleting the record of a stream keeps the sending half in order.
LEMMA MaybeDeleteKeeps ==
  ASSUME NEW x \in Session, NEW s \in StreamIds, NEW p \in Int, SendInv(x, p)
  PROVE  SendInv(MaybeDeleteStreamFlow(x, s), p)
<1>1. PICK y : y = MaybeDeleteStreamFlow(x, s) OBVIOUS
<1>2. /\ y \in Session /\ RecvSame(x, y)
      /\ SendSame(x, y) \/ (x.writer[s].at = "stream" /\ Failed(x, y, s)) BY <1>1, MaybeDeleteDoes
<1>3. CASE SendSame(x, y) BY <1>1, <1>2, <1>3, SendInvKept
<1>4. CASE x.writer[s].at = "stream" /\ Failed(x, y, s)
  <2>1. CASE x.closed = "open"
    <3>1. Framed(x) /\ Hands(x) BY <2>1 DEF SendInv
    <3>2. NoFrame(x, s) BY <1>4, <3>1, IdleHasNoFrame
    <3>3. Claimed(x.writer[s]) = 0 BY <1>4, <3>1 DEF Hands, Claimed
    <3>4. SendInv(y, p + Claimed(x.writer[s])) BY <1>2, <1>4, <2>1, <3>2, FailedKeeps
    <3>5. p + Claimed(x.writer[s]) = p BY <3>3
    <3>. QED BY <1>1, <3>4, <3>5
  <2>2. CASE x.closed # "open" BY <1>1, <1>4, <2>2 DEF SendInv, Failed, Rest
  <2>. QED BY <2>1, <2>2
<1>. QED BY <1>2, <1>3, <1>4

\* A frame f of s is queued for its writer, which becomes w.
Queue(x, s, w, f) == [x EXCEPT !.writer[s] = w, !.ready = Append(@, f)]

\* Queueing a frame touches one writer and #ready.
LEMMA QueuePut ==
  ASSUME NEW x \in Session, NEW s \in StreamIds, NEW w \in Writer,
         NEW f \in StreamFrame, NEW y, y = Queue(x, s, w, f)
  PROVE  /\ y \in Session /\ RecvSame(x, y)
         /\ y.me = x.me /\ y.closed = x.closed /\ y.next = x.next /\ y.recorded = x.recorded
         /\ y.conn = x.conn /\ y.flow = x.flow /\ y.ready = Append(x.ready, f) /\ y.inflight = x.inflight
         /\ y.writer[s] = w /\ \A t \in StreamIds : t # s => y.writer[t] = x.writer[t]
<1>1. PICK u, r : u = [x.writer EXCEPT ![s] = w] /\ r = Append(x.ready, f) OBVIOUS
<1>2. x.writer \in [StreamIds -> Writer] /\ x.ready \in Seq(StreamFrame) BY DEF Session
<1>3. y = [x EXCEPT !.writer = u, !.ready = r] BY <1>1 DEF Session, Queue
<1>4. u \in [StreamIds -> Writer] /\ u[s] = w /\ \A t \in StreamIds : t # s => u[t] = x.writer[t] BY <1>1, <1>2
<1>6. r \in Seq(StreamFrame) BY <1>1, <1>2
<1>7. y \in Session BY <1>3, <1>4, <1>6, ZenonT(60) DEF Session
<1>8. y.writer = u /\ y.flow = x.flow /\ y.ready = r /\ y.conn = x.conn BY <1>3 DEF Session
<1>9. RecvSame(x, y) /\ y.next = x.next /\ y.inflight = x.inflight BY <1>3 DEF Session, RecvSame, DataSame, AdmitSame
<1>. QED BY <1>1, <1>4, <1>7, <1>8, <1>9 DEF RecvSame, AdmitSame

\* The frame of a write is queued, on the credit that was claimed for it in z.
LEMMA QueueKeeps ==
  ASSUME NEW x \in Session, NEW s \in StreamIds, NEW p \in Int, x.closed = "open", SendInv(x, p),
         NoFrame(x, s), x.writer[s].at # "none",
         NEW w \in Writer, w.at = "queued", w.held >= 0, w.left > 0,
         NEW z \in Session, RecvSame(x, z), Rest(x, z), z.writer = x.writer,
         z.conn.max = x.conn.max, z.conn.used = x.conn.used + w.held,
         \A t \in StreamIds : z.flow[t].max = x.flow[t].max /\ z.flow[t].used >= x.flow[t].used,
         NEW f \in StreamFrame, f.id = s, ~f.fin, 0 < f.n, f.n <= w.left,
         NEW y, y = Queue(z, s, w, f)
  PROVE  /\ y \in Session /\ RecvSame(x, y) /\ y.me = x.me /\ y.closed = "open" /\ SendInv(y, p + Claimed(x.writer[s]))
<1>0. /\ y \in Session /\ RecvSame(z, y)
      /\ y.me = z.me /\ y.closed = z.closed /\ y.next = z.next /\ y.recorded = z.recorded
      /\ y.conn = z.conn /\ y.flow = z.flow /\ y.ready = Append(z.ready, f) /\ y.inflight = z.inflight
      /\ y.writer[s] = w /\ (\A t \in StreamIds : t # s => y.writer[t] = z.writer[t]) BY QueuePut
<1>1. /\ y \in Session /\ RecvSame(x, y)
      /\ y.me = x.me /\ y.closed = x.closed /\ y.next = x.next /\ y.recorded = x.recorded
      /\ y.ready = Append(x.ready, f) /\ y.inflight = x.inflight
      /\ y.writer[s] = w /\ (\A t \in StreamIds : t # s => y.writer[t] = x.writer[t])
  <2>1. RecvSame(x, y) BY <1>0, WakesCompose
  <2>. QED BY <1>0, <2>1 DEF Rest
<1>2. Matches(y, f) BY <1>1 DEF Matches
<1>3. Framed(y) BY <1>1, <1>2, FramedAppend DEF SendInv
<1>4. PICK q : q = p + Claimed(x.writer[s]) OBVIOUS
<1>5. Claimed(x.writer[s]) \in Int /\ Claimed(w) = w.held /\ w.held \in Int BY InHandsMoves DEF Claimed, Writer
<1>6. x.conn.used \in Int /\ \A t \in StreamIds : x.flow[t].used \in Int BY DEF Session, CreditRecord, Flow
<1>7. q \in Int /\ y.conn.used = x.conn.used + (q - p) + (Claimed(y.writer[s]) - Claimed(x.writer[s]))
      /\ y.conn.used >= x.conn.used BY <1>0, <1>1, <1>4, <1>5, <1>6
<1>8. /\ y.conn.max = x.conn.max
      /\ \A t \in StreamIds : y.flow[t].max = x.flow[t].max /\ y.flow[t].used >= x.flow[t].used BY <1>0, <1>6
<1>9. SendInv(y, q)
  <2>1. y.writer[s].held >= 0 /\ y.writer[s].at = "queued" BY <1>1
  <2>. QED BY <1>1, <1>3, <1>7, <1>8, <2>1, WriterMoves
<1>. QED BY <1>1, <1>4, <1>9

\* The writer of s parks on a credit that has nothing left.
LEMMA ParkKeeps ==
  ASSUME NEW x \in Session, NEW s \in StreamIds, NEW p \in Int, x.closed = "open", SendInv(x, p),
         NoFrame(x, s), x.writer[s].at # "none",
         NEW w \in Writer, w.held = 0, w.left > 0,
         \/ w.at = "conn" /\ TryClaim(x.conn, 1) = 0
         \/ w.at = "stream" /\ TryClaim(x.flow[s], 1) = 0,
         NEW y, y = PutWriter(x, s, w)
  PROVE  /\ y \in Session /\ RecvSame(x, y) /\ y.me = x.me /\ y.closed = "open" /\ SendInv(y, p + Claimed(x.writer[s]))
<1>1. /\ y \in Session /\ RecvSame(x, y) /\ Rest(x, y) /\ y.conn = x.conn /\ y.flow = x.flow
      /\ y.writer[s] = w /\ \A t \in StreamIds : t # s => y.writer[t] = x.writer[t] BY WriterPut
<1>2. Framed(y) BY <1>1, FramedSame DEF SendInv, Rest
<1>3. PICK q : q = p + Claimed(x.writer[s]) OBVIOUS
<1>4. Claimed(x.writer[s]) \in Int /\ Claimed(w) = 0 BY InHandsMoves DEF Claimed
<1>5. x.conn.used \in Int /\ \A t \in StreamIds : x.flow[t].used \in Int BY DEF Session, CreditRecord, Flow
<1>6. q \in Int /\ y.conn.used = x.conn.used + (q - p) + (Claimed(y.writer[s]) - Claimed(x.writer[s]))
      /\ y.conn.used >= x.conn.used BY <1>1, <1>3, <1>4, <1>5
<1>7. /\ y.me = x.me /\ y.next = x.next /\ y.recorded = x.recorded /\ y.conn.max = x.conn.max
      /\ \A t \in StreamIds : y.flow[t].max = x.flow[t].max /\ y.flow[t].used >= x.flow[t].used BY <1>1, <1>5 DEF Rest
<1>8. SendInv(y, q)
  <2>1. y.writer[s].held = 0 /\ y.writer[s].at # "queued" /\ y.writer[s].left > 0
        /\ (y.writer[s].at = "conn" => TryClaim(y.conn, 1) = 0)
        /\ (y.writer[s].at = "stream" => TryClaim(y.flow[s], 1) = 0) BY <1>1
  <2>2. y.writer[s].held >= 0 BY <2>1
  <2>. QED BY <1>1, <1>2, <1>6, <1>7, <2>1, <2>2, WriterMoves
<1>. QED BY <1>1, <1>3, <1>8 DEF Rest

\* What a claim of credit returns.
LEMMA TryClaimDoes ==
  ASSUME NEW c, c.max \in Int, c.used \in Int, NEW k \in Int, k > 0
  PROVE  /\ TryClaim(c, k) \in Int /\ TryClaim(c, k) >= 0 /\ TryClaim(c, k) <= k
         /\ TryClaim(c, k) = 0 => TryClaim(c, 1) = 0
BY DEF TryClaim, AtMost

\* One round of a write: its frame is queued, it parks on the credit that is
\* missing, or it fails.
LEMMA ClaimKeeps ==
  ASSUME NEW x \in Session, NEW s \in StreamIds, NEW p \in Int, x.closed = "open", SendInv(x, p),
         NoFrame(x, s), x.writer[s].at # "none", x.writer[s].left > 0, x.writer[s].held = 0
  PROVE  LET y == ClaimSendCredit(x, s) IN
         /\ y \in Session /\ RecvSame(x, y) /\ y.me = x.me /\ y.closed = "open" /\ SendInv(y, p + Claimed(x.writer[s]))
<1>1. PICK w, want, a, n, y :
        /\ w = x.writer[s] /\ want = AtMost(w.left, MaxFrame) /\ a = TryClaim(x.flow[s], want)
        /\ n = TryClaim(x.conn, a) /\ y = ClaimSendCredit(x, s) OBVIOUS
<1>. DEFINE P == /\ y \in Session /\ RecvSame(x, y) /\ y.me = x.me /\ y.closed = "open"
                 /\ SendInv(y, p + Claimed(x.writer[s]))
<1>2. w \in Writer /\ x.flow[s] \in Flow /\ x.conn \in CreditRecord BY <1>1 DEF Session
<1>3. want \in Int /\ want > 0 /\ want <= w.left /\ w.left \in Int
  <2>1. MaxFrame \in Int /\ MaxFrame > 0 BY JsAssumption
  <2>2. w.left \in Int /\ w.left > 0 BY <1>1, <1>2 DEF Writer
  <2>. QED BY <1>1, <2>1, <2>2 DEF AtMost
<1>4. x.flow[s].max \in Int /\ x.flow[s].used \in Int /\ x.conn.max \in Int /\ x.conn.used \in Int
  BY <1>2 DEF Flow, CreditRecord
<1>5. a \in Int /\ a >= 0 /\ a <= want /\ (a = 0 => TryClaim(x.flow[s], 1) = 0) BY <1>1, <1>3, <1>4, TryClaimDoes
<1>6. a > 0 => n \in Int /\ n >= 0 /\ n <= a /\ (n = 0 => TryClaim(x.conn, 1) = 0) BY <1>1, <1>4, <1>5, TryClaimDoes
<1>7. PICK b, k, no : b = FALSE /\ k = "queued" /\ no = 0 OBVIOUS
<1>8. b \in BOOLEAN /\ k \in Phases /\ no \in Int
  <2>1. b \in BOOLEAN BY <1>7
  <2>2. k \in Phases BY <1>7 DEF Phases
  <2>3. no \in Int BY <1>7
  <2>. QED BY <2>1, <2>2, <2>3
<1>9. CASE w.at = "queued" /\ s \notin x.streamFlow
  <2>1. PICK v, f : /\ v = [w EXCEPT !.at = k, !.held = no, !.woken = b]
                    /\ f = [type |-> "stream", id |-> s, fin |-> b, n |-> want] OBVIOUS
  <2>2. v \in Writer /\ v.at = "queued" /\ v.held = 0 /\ v.left = w.left BY <1>2, <1>7, <1>8, <2>1 DEF Writer
  <2>3. f \in StreamFrame /\ f.id = s /\ f.fin = b /\ f.n = want BY <1>3, <1>8, <2>1 DEF StreamFrame
  <2>4. y = Queue(x, s, v, f)
    <3>1. y = [x EXCEPT !.writer[s] = [@ EXCEPT !.at = k, !.held = no, !.woken = b], !.ready = Append(@, f)]
      BY <1>1, <1>7, <1>9, <2>1 DEF ClaimSendCredit
    <3>. QED BY <1>1, <2>1, <3>1 DEF Queue
  <2>5. x.conn.used = x.conn.used + v.held /\ v.held >= 0 /\ v.left > 0 BY <1>3, <1>4, <2>2
  <2>6. ~f.fin /\ 0 < f.n /\ f.n <= v.left BY <1>3, <1>7, <2>2, <2>3
  <2>7. RecvSame(x, x) /\ Rest(x, x) BY WakesCompose
  <2>8. \A t \in StreamIds : x.flow[t].max = x.flow[t].max /\ x.flow[t].used >= x.flow[t].used BY DEF Session, Flow
  <2>9. P BY <2>2, <2>3, <2>4, <2>5, <2>6, <2>7, <2>8, QueueKeeps
  <2>. QED BY <1>1, <2>9
<1>10. CASE ~(w.at = "queued" /\ s \notin x.streamFlow) /\ a = 0 /\ x.flow[s].shut
  <2>1. y = FailWriter(x, s) BY <1>1, <1>10 DEF ClaimSendCredit
  <2>2. y \in Session /\ RecvSame(x, y) /\ Failed(x, y, s) BY <2>1, FailWriterDoes
  <2>3. SendInv(y, p + Claimed(x.writer[s])) BY <2>2, FailedKeeps
  <2>. QED BY <1>1, <2>2, <2>3 DEF Failed, Rest
<1>11. CASE ~(w.at = "queued" /\ s \notin x.streamFlow) /\ a = 0 /\ ~x.flow[s].shut
  <2>0. PICK l \in Phases : l = "stream" BY DEF Phases
  <2>1. PICK v : v = [w EXCEPT !.at = l, !.woken = b] OBVIOUS
  <2>2. v \in Writer /\ v.at = "stream" /\ v.held = w.held /\ v.left = w.left BY <1>2, <1>8, <2>0, <2>1 DEF Writer
  <2>3. y = PutWriter(x, s, v)
    <3>1. y = [x EXCEPT !.writer[s].at = "stream", !.writer[s].woken = FALSE] BY <1>1, <1>11 DEF ClaimSendCredit
    <3>. QED BY <1>1, <1>7, <2>0, <2>1, <3>1 DEF PutWriter, Session, Writer
  <2>. QED BY <1>1, <1>5, <1>11, <2>2, <2>3, ParkKeeps
<1>12. CASE ~(w.at = "queued" /\ s \notin x.streamFlow) /\ a # 0 /\ n = 0
  <2>0. PICK l \in Phases : l = "conn" BY DEF Phases
  <2>1. PICK v : v = [w EXCEPT !.at = l, !.woken = b] OBVIOUS
  <2>2. v \in Writer /\ v.at = "conn" /\ v.held = w.held /\ v.left = w.left BY <1>2, <1>8, <2>0, <2>1 DEF Writer
  <2>3. y = PutWriter(x, s, v)
    <3>1. y = [x EXCEPT !.writer[s].at = "conn", !.writer[s].woken = FALSE] BY <1>1, <1>12 DEF ClaimSendCredit
    <3>. QED BY <1>1, <1>7, <2>0, <2>1, <3>1 DEF PutWriter, Session, Writer
  <2>4. TryClaim(x.conn, 1) = 0 BY <1>5, <1>6, <1>12
  <2>. QED BY <1>1, <2>2, <2>3, <2>4, ParkKeeps
<1>13. CASE ~(w.at = "queued" /\ s \notin x.streamFlow) /\ a # 0 /\ n # 0
  <2>0. n \in Int /\ n > 0 /\ n <= w.left BY <1>3, <1>5, <1>6, <1>13
  <2>1. PICK v, f, c, g, cu, gu : /\ v = [w EXCEPT !.at = k, !.held = n, !.woken = b]
                                  /\ f = [type |-> "stream", id |-> s, fin |-> b, n |-> n]
                                  /\ cu = x.conn.used + n /\ gu = x.flow[s].used + n
                                  /\ c = [x.conn EXCEPT !.used = cu] /\ g = [x.flow[s] EXCEPT !.used = gu] OBVIOUS
  <2>2. v \in Writer /\ v.at = "queued" /\ v.held = n /\ v.left = w.left BY <1>2, <1>7, <1>8, <2>0, <2>1 DEF Writer
  <2>3. f \in StreamFrame /\ f.id = s /\ f.fin = b /\ f.n = n BY <1>8, <2>0, <2>1 DEF StreamFrame
  <2>4. cu \in Int /\ gu \in Int /\ gu >= x.flow[s].used BY <1>4, <2>0, <2>1
  <2>5. c \in CreditRecord /\ c.max = x.conn.max /\ c.used = cu BY <1>2, <2>1, <2>4 DEF CreditRecord
  <2>6. g \in Flow /\ g.max = x.flow[s].max /\ g.used = gu BY <1>2, <2>1, <2>4 DEF Flow
  <2>6a. PICK u, z : u = [x.flow EXCEPT ![s] = g] /\ z = [x EXCEPT !.conn = c, !.flow = u] OBVIOUS
  <2>6b. x.flow \in [StreamIds -> Flow] BY DEF Session
  <2>6c. u \in [StreamIds -> Flow] /\ u[s] = g /\ \A t \in StreamIds : t # s => u[t] = x.flow[t] BY <2>6, <2>6a, <2>6b
  <2>6d. z \in Session /\ z.conn = c /\ z.flow = u /\ z.writer = x.writer BY <2>5, <2>6a, <2>6c, ZenonT(60) DEF Session
  <2>6e. RecvSame(x, z) /\ Rest(x, z) BY <2>6a DEF Session, RecvSame, DataSame, AdmitSame, Rest
  <2>6f. z = [x EXCEPT !.conn.used = @ + n, !.flow[s].used = @ + n] BY <2>1, <2>6a
  <2>7. y = Queue(z, s, v, f)
    <3>1. y = [[x EXCEPT !.conn.used = @ + n, !.flow[s].used = @ + n] EXCEPT
                 !.writer[s] = [@ EXCEPT !.at = k, !.held = n, !.woken = b], !.ready = Append(@, f)]
      BY <1>1, <1>7, <1>13, <2>1 DEF ClaimSendCredit
    <3>2. y = [z EXCEPT !.writer[s] = [@ EXCEPT !.at = k, !.held = n, !.woken = b], !.ready = Append(@, f)]
      BY <2>6f, <3>1
    <3>3. z.writer[s] = w BY <1>1, <2>6d
    <3>. QED BY <2>1, <3>2, <3>3 DEF Queue
  <2>8. ~f.fin /\ 0 < f.n /\ f.n <= v.left /\ v.held >= 0 /\ v.left > 0 BY <1>3, <1>7, <2>0, <2>2, <2>3
  <2>9. z.conn.max = x.conn.max /\ z.conn.used = x.conn.used + v.held BY <2>1, <2>2, <2>5, <2>6d
  <2>10. \A t \in StreamIds : z.flow[t].max = x.flow[t].max /\ z.flow[t].used >= x.flow[t].used
    <3>1. \A t \in StreamIds : x.flow[t].used \in Int BY DEF Session, Flow
    <3>. QED BY <2>4, <2>6, <2>6c, <2>6d, <3>1
  <2>11. P BY <2>2, <2>3, <2>6d, <2>6e, <2>7, <2>8, <2>9, <2>10, QueueKeeps
  <2>. QED BY <1>1, <2>11
<1>. QED BY <1>9, <1>10, <1>11, <1>12, <1>13

\* The element at i is left out.
LEMMA WithoutDoes ==
  ASSUME NEW S, NEW q \in Seq(S), NEW i \in DOMAIN q
  PROVE  /\ Without(q, i) \in Seq(S) /\ Len(Without(q, i)) = Len(q) - 1
         /\ \A j \in DOMAIN Without(q, i) :
              \E k \in DOMAIN q : k # i /\ Without(q, i)[j] = q[k] /\ k = (IF j < i THEN j ELSE j + 1)
<1>1. PICK n \in Nat : n = Len(q) /\ n > 0 OBVIOUS
<1>2. DOMAIN q = 1..n /\ i \in 1..n /\ \A k \in 1..n : q[k] \in S BY <1>1
<1>3. \A j \in 1..n - 1 : (IF j < i THEN j ELSE j + 1) \in 1..n /\ (IF j < i THEN j ELSE j + 1) # i BY <1>1, <1>2
<1>4. PICK w : w = Without(q, i) OBVIOUS
<1>5. w = [j \in 1..n - 1 |-> IF j < i THEN q[j] ELSE q[j + 1]] BY <1>1, <1>4 DEF Without
<1>6. \A j \in 1..n - 1 : w[j] \in S /\ w[j] = q[IF j < i THEN j ELSE j + 1] BY <1>2, <1>3, <1>5
<1>7. w \in Seq(S) /\ Len(w) = n - 1 /\ DOMAIN w = 1..n - 1 BY <1>1, <1>5, <1>6
<1>. QED BY <1>1, <1>2, <1>3, <1>4, <1>6, <1>7

\* A frame leaves the scheduler's map, and no other frame of its stream is there.
LEMMA FramedWithout ==
  ASSUME NEW x \in Session, NEW y \in Session, NEW i \in DOMAIN x.ready, NEW s, s = x.ready[i].id,
         Framed(x), y.ready = Without(x.ready, i), y.inflight = x.inflight, y.writer = x.writer
  PROVE  Framed(y) /\ NoFrame(y, s)
<1>1. x.ready \in Seq(StreamFrame) BY DEF Session
<1>2. \A j \in DOMAIN y.ready :
        \E k \in DOMAIN x.ready : k # i /\ y.ready[j] = x.ready[k] /\ k = (IF j < i THEN j ELSE j + 1)
  BY <1>1, WithoutDoes
<1>3. \A j \in DOMAIN y.ready : Matches(y, y.ready[j]) /\ y.ready[j].id # s
  <2>1. \A k \in DOMAIN x.ready : Matches(y, x.ready[k]) /\ (k # i => x.ready[k].id # s) BY DEF Framed, Matches
  <2>. QED BY <1>2, <2>1
<1>4. \A j, m \in DOMAIN y.ready : y.ready[j].id = y.ready[m].id => j = m
  <2>. SUFFICES ASSUME NEW j \in DOMAIN y.ready, NEW m \in DOMAIN y.ready, y.ready[j].id = y.ready[m].id
                PROVE  j = m OBVIOUS
  <2>1. PICK k \in DOMAIN x.ready : y.ready[j] = x.ready[k] /\ k = (IF j < i THEN j ELSE j + 1) BY <1>2
  <2>2. PICK l \in DOMAIN x.ready : y.ready[m] = x.ready[l] /\ l = (IF m < i THEN m ELSE m + 1) BY <1>2
  <2>3. k = l BY <2>1, <2>2 DEF Framed
  <2>4. j \in Int /\ m \in Int /\ i \in Int
    <3>1. y.ready \in Seq(StreamFrame) BY DEF Session
    <3>. QED BY <1>1, <3>1
  <2>. QED BY <2>1, <2>2, <2>3, <2>4
<1>5. y.inflight # <<>> => /\ y.inflight = <<y.inflight[1]>> /\ Matches(y, y.inflight[1]) /\ y.inflight[1].id # s
                           /\ \A j \in DOMAIN y.ready : y.ready[j].id # y.inflight[1].id
  <2>. SUFFICES ASSUME x.inflight # <<>>
                PROVE  /\ x.inflight = <<x.inflight[1]>> /\ Matches(y, x.inflight[1]) /\ x.inflight[1].id # s
                       /\ \A j \in DOMAIN y.ready : y.ready[j].id # x.inflight[1].id OBVIOUS
  <2>1. /\ x.inflight = <<x.inflight[1]>> /\ Matches(x, x.inflight[1])
        /\ \A k \in DOMAIN x.ready : x.ready[k].id # x.inflight[1].id BY DEF Framed
  <2>2. Matches(y, x.inflight[1]) BY <2>1 DEF Matches
  <2>. QED BY <1>2, <2>1, <2>2
<1>. QED BY <1>3, <1>4, <1>5 DEF Framed, NoFrame

\* The frame of a write was rejected: its credit is back, and its writer has failed.
LEMMA RejectDoes ==
  ASSUME NEW x \in Session, NEW s \in StreamIds, NEW p \in Int
  PROVE  LET y == RejectQueued(x, s) IN
         /\ y \in Session /\ RecvSame(x, y) /\ Rest(x, y) /\ y.writer[s].at = "failed"
         /\ /\ x.closed = "open" /\ SendInv(x, p) /\ p >= 0 /\ NoFrame(x, s) /\ x.writer[s].at \in {"queued", "closing"}
            => SendInv(y, p)
<1>1. PICK n, a, b, y : /\ n = x.writer[s].held /\ a = ReleaseStream(x, s, n) /\ b = ReleaseConn(a, n)
                        /\ y = RejectQueued(x, s) OBVIOUS
<1>2. y = FailWriter(b, s) BY <1>1 DEF RejectQueued
<1>3. n \in Int BY <1>1 DEF Session, Writer
<1>4. /\ a \in Session /\ RecvSame(x, a) /\ Rest(x, a) /\ OnlyWakes(x, a) /\ a.conn = x.conn
      /\ x.closed = "open" /\ Sleepless(x) => Sleepless(a) BY <1>1, <1>3, ReleaseStreamDoes
<1>5. /\ b \in Session /\ RecvSame(a, b) /\ Rest(a, b) /\ OnlyWakes(a, b) /\ b.flow = a.flow
      /\ n <= a.conn.used => b.conn.used = a.conn.used - n
      /\ a.closed = "open" /\ Sleepless(a) => Sleepless(b) BY <1>1, <1>3, <1>4, ReleaseConnDoes
<1>6. y \in Session /\ RecvSame(b, y) /\ Failed(b, y, s) BY <1>2, <1>5, FailWriterDoes
<1>7. RecvSame(x, y) BY <1>4, <1>5, <1>6, WakesCompose
<1>8. Rest(x, b) /\ Rest(x, y) /\ y.writer[s].at = "failed" /\ OnlyWakes(x, b)
  <2>1. Rest(b, y) /\ y.writer[s].at = "failed" BY <1>6 DEF Failed
  <2>. QED BY <1>4, <1>5, <2>1, WakesCompose
<1>9. ASSUME x.closed = "open", SendInv(x, p), p >= 0, NoFrame(x, s), x.writer[s].at \in {"queued", "closing"}
      PROVE  SendInv(y, p)
  <2>1. Hands(x) /\ Sleepless(x) /\ Conserved(x, p) BY <1>9 DEF SendInv
  <2>2. Claimed(x.writer[s]) = n BY <1>1, <1>9 DEF Claimed
  <2>3. n >= 0 /\ n <= InHands(x) /\ InHands(x) \in Int BY <2>1, <2>2, InHandsMoves
  <2>4. x.conn.used = p + InHands(x) /\ x.conn.used \in Int BY <2>1 DEF Conserved, InHands, Session, CreditRecord
  <2>5. b.conn.used = x.conn.used - n BY <1>3, <1>4, <1>5, <1>9, <2>3, <2>4
  <2>6. Sleepless(b) BY <1>4, <1>5, <1>9, <2>1 DEF Rest
  <2>7. PICK q : q = p - n OBVIOUS
  <2>8. q \in Int /\ b.conn.used = x.conn.used + (q - p) BY <1>3, <2>4, <2>5, <2>7
  <2>9. SendInv(b, q) BY <1>5, <1>8, <1>9, <2>6, <2>8, WakesKeep
  <2>10. NoFrame(b, s) /\ b.closed = "open" BY <1>8, <1>9 DEF Rest, NoFrame
  <2>11. b.writer[s].at # "none" /\ Claimed(b.writer[s]) = n BY <1>1, <1>8, <1>9 DEF OnlyWakes, Claimed
  <2>12. SendInv(y, q + Claimed(b.writer[s])) BY <1>5, <1>6, <2>8, <2>9, <2>10, <2>11, FailedKeeps
  <2>13. q + Claimed(b.writer[s]) = p BY <1>3, <2>7, <2>11
  <2>. QED BY <2>12, <2>13
<1>. QED BY <1>1, <1>6, <1>7, <1>8, <1>9

\* dropStream: the frame of s that waits is rejected.
LEMMA DropStreamDoes ==
  ASSUME NEW x \in Session, NEW s \in StreamIds, NEW p \in Int
  PROVE  LET y == DropStream(x, s) IN
         /\ y \in Session /\ RecvSame(x, y) /\ y.closed = x.closed
         /\ x.closed = "open" /\ SendInv(x, p) /\ p >= 0 => SendInv(y, p)
<1>1. PICK o, z, y : o = [x.order EXCEPT ![s] = 0] /\ z = [x EXCEPT !.order = o] /\ y = DropStream(x, s) OBVIOUS
<1>2. o \in [StreamIds -> {0, 1}]
  <2>1. x.order \in [StreamIds -> {0, 1}] BY DEF Session
  <2>. QED BY <1>1, <2>1
<1>3. z \in Session /\ SendSame(x, z) /\ RecvSame(x, z)
  <2>1. z \in Session BY <1>1, <1>2 DEF Session
  <2>2. SendSame(x, z) BY <1>1 DEF Session, SendSame
  <2>3. RecvSame(x, z) BY <1>1 DEF Session, RecvSame, DataSame, AdmitSame
  <2>. QED BY <2>1, <2>2, <2>3
<1>4. SendInv(x, p) => SendInv(z, p) BY <1>3, SendInvKept
<1>. DEFINE waiting == {i \in DOMAIN x.ready : x.ready[i].id = s}
<1>5. CASE waiting = {}
  <2>1. y = z BY <1>1, <1>5 DEF DropStream
  <2>. QED BY <1>1, <1>3, <1>4, <2>1 DEF SendSame
<1>6. CASE waiting # {}
  <2>1. PICK i : i = CHOOSE j \in waiting : TRUE OBVIOUS
  <2>2. i \in DOMAIN x.ready /\ x.ready[i].id = s BY <1>6, <2>1
  <2>3. PICK r, a : r = Without(x.ready, i) /\ a = [z EXCEPT !.ready = r] OBVIOUS
  <2>4. y = RejectQueued(a, s)
    <3>1. y = RejectQueued([z EXCEPT !.ready = Without(@, i)], s) BY <1>1, <1>6, <2>1 DEF DropStream
    <3>2. [z EXCEPT !.ready = Without(@, i)] = a BY <1>3, <2>3 DEF SendSame
    <3>. QED BY <3>1, <3>2
  <2>5. r \in Seq(StreamFrame)
    <3>1. x.ready \in Seq(StreamFrame) BY DEF Session
    <3>. QED BY <2>2, <2>3, <3>1, WithoutDoes
  <2>6. a \in Session /\ a.ready = r BY <1>3, <2>3, <2>5 DEF Session
  <2>7. RecvSame(z, a) /\ a.closed = z.closed /\ a.me = z.me /\ a.next = z.next /\ a.recorded = z.recorded
        /\ a.conn = z.conn /\ a.flow = z.flow /\ a.writer = z.writer /\ a.inflight = z.inflight
    BY <1>3, <2>3 DEF Session, RecvSame, DataSame, AdmitSame
  <2>8. /\ y \in Session /\ RecvSame(a, y) /\ Rest(a, y)
        /\ /\ a.closed = "open" /\ SendInv(a, p) /\ p >= 0 /\ NoFrame(a, s) /\ a.writer[s].at \in {"queued", "closing"}
           => SendInv(y, p) BY <2>4, <2>6, RejectDoes
  <2>9. RecvSame(x, y) BY <1>3, <2>7, <2>8, WakesCompose
  <2>10. y.closed = x.closed BY <1>3, <2>7, <2>8 DEF SendSame, Rest
  <2>11. ASSUME x.closed = "open", SendInv(x, p), p >= 0 PROVE SendInv(y, p)
    <3>1. Named(z) /\ Framed(z) /\ Hands(z) /\ Sleepless(z) /\ Conserved(z, p) /\ z.closed = "open"
      BY <1>3, <1>4, <2>11 DEF SendInv, SendSame
    <3>2. z.ready = x.ready BY <1>3 DEF SendSame
    <3>3. Framed(a) /\ NoFrame(a, s)
      <4>1. a.ready = Without(z.ready, i) /\ i \in DOMAIN z.ready /\ s = z.ready[i].id BY <2>2, <2>3, <2>6, <3>2
      <4>. QED BY <1>3, <2>6, <2>7, <3>1, <4>1, FramedWithout
    <3>4. Named(a) /\ Hands(a) /\ Sleepless(a) /\ Conserved(a, p) BY <2>7, <3>1 DEF Named, Hands, Sleepless, Conserved
    <3>5. SendInv(a, p) /\ a.closed = "open" BY <2>7, <3>1, <3>3, <3>4 DEF SendInv
    <3>6. Matches(z, z.ready[i]) BY <2>2, <3>1, <3>2 DEF Framed
    <3>7. a.writer[s].at \in {"queued", "closing"} BY <2>2, <2>7, <3>2, <3>6 DEF Matches
    <3>. QED BY <2>8, <2>11, <3>3, <3>5, <3>7
  <2>. QED BY <1>1, <2>8, <2>9, <2>10, <2>11
<1>. QED BY <1>5, <1>6

\* The writer of s goes on to w, having nothing in the scheduler and no credit.
LEMMA RestsKeeps ==
  ASSUME NEW x \in Session, NEW s \in StreamIds, NEW p \in Int, x.closed = "open", SendInv(x, p),
         NoFrame(x, s), x.writer[s].at # "none", Claimed(x.writer[s]) = 0,
         NEW w \in Writer, w.held = 0, w.at \notin {"stream", "conn", "hold"},
         NEW y, y = PutWriter(x, s, w)
  PROVE  y \in Session /\ RecvSame(x, y) /\ Rest(x, y) /\ SendInv(y, p) /\ NoFrame(y, s)
<1>1. /\ y \in Session /\ RecvSame(x, y) /\ Rest(x, y) /\ y.conn = x.conn /\ y.flow = x.flow
      /\ y.writer[s] = w /\ \A t \in StreamIds : t # s => y.writer[t] = x.writer[t] BY WriterPut
<1>2. Framed(y) /\ NoFrame(y, s) BY <1>1, FramedSame DEF SendInv, Rest
<1>3. Claimed(w) = 0 BY DEF Claimed
<1>4. x.conn.used \in Int /\ \A t \in StreamIds : x.flow[t].used \in Int BY DEF Session, CreditRecord, Flow
<1>5. y.conn.used = x.conn.used + (p - p) + (Claimed(y.writer[s]) - Claimed(x.writer[s]))
      /\ y.conn.used >= x.conn.used BY <1>1, <1>3, <1>4
<1>6. /\ y.me = x.me /\ y.next = x.next /\ y.recorded = x.recorded /\ y.conn.max = x.conn.max
      /\ \A t \in StreamIds : y.flow[t].max = x.flow[t].max /\ y.flow[t].used >= x.flow[t].used BY <1>1, <1>4 DEF Rest
<1>7. SendInv(y, p)
  <2>1. y.writer[s].held = 0 /\ y.writer[s].at \notin {"stream", "conn", "hold"} BY <1>1
  <2>2. y.writer[s].held >= 0 BY <2>1
  <2>. QED BY <1>1, <1>2, <1>5, <1>6, <2>1, <2>2, WriterMoves
<1>. QED BY <1>1, <1>2, <1>7

\* An operation of a writer has ended well.
LEMMA SettledDoes ==
  ASSUME NEW x \in Session, NEW s \in StreamIds, NEW p \in Int
  PROVE  LET y == Settled(x, s) IN
         /\ y \in Session /\ RecvSame(x, y) /\ y.closed = x.closed
         /\ /\ x.closed = "open" /\ SendInv(x, p) /\ NoFrame(x, s)
            /\ x.writer[s].at # "none" /\ Claimed(x.writer[s]) = 0 /\ x.writer[s].held = 0
            => SendInv(y, p)
<1>1. PICK y : y = Settled(x, s) OBVIOUS
<1>2. CASE x.writer[s].abort \/ x.writer[s].errored
  <2>1. y \in Session /\ RecvSame(x, y) /\ Failed(x, y, s) BY <1>1, <1>2, AbortAlgorithmDoes, FailWriterDoes DEF Settled
  <2>2. ASSUME x.closed = "open", SendInv(x, p), NoFrame(x, s), x.writer[s].at # "none", Claimed(x.writer[s]) = 0
        PROVE  SendInv(y, p)
    <3>1. SendInv(y, p + Claimed(x.writer[s])) BY <2>1, <2>2, FailedKeeps
    <3>2. p + Claimed(x.writer[s]) = p BY <2>2
    <3>. QED BY <3>1, <3>2
  <2>. QED BY <1>1, <2>1, <2>2 DEF Failed, Rest
<1>3. CASE ~(x.writer[s].abort \/ x.writer[s].errored)
  <2>0. PICK k \in Phases : k = "idle" BY DEF Phases
  <2>1. PICK w : w = [x.writer[s] EXCEPT !.at = k] OBVIOUS
  <2>2. x.writer[s] \in Writer BY DEF Session
  <2>3. w \in Writer /\ w.at = "idle" /\ w.held = x.writer[s].held BY <2>0, <2>1, <2>2 DEF Writer
  <2>4. y = PutWriter(x, s, w)
    <3>1. y = [x EXCEPT !.writer[s].at = "idle"] BY <1>1, <1>3 DEF Settled
    <3>. QED BY <2>0, <2>1, <3>1 DEF PutWriter
  <2>5. y \in Session /\ RecvSame(x, y) /\ Rest(x, y) BY <2>3, <2>4, WriterPut
  <2>6. ASSUME x.closed = "open", SendInv(x, p), NoFrame(x, s), x.writer[s].at # "none",
               Claimed(x.writer[s]) = 0, x.writer[s].held = 0
        PROVE  SendInv(y, p) BY <2>3, <2>4, <2>6, RestsKeeps
  <2>. QED BY <1>1, <2>5, <2>6 DEF Rest
<1>. QED BY <1>2, <1>3

\* The frame being written is done with, and no other frame of its stream is there.
LEMMA FramedTaken ==
  ASSUME NEW x \in Session, NEW y \in Session, NEW s \in StreamIds, x.inflight # <<>>, s = x.inflight[1].id,
         Framed(x), y.ready = x.ready, y.inflight = <<>>,
         \A t \in StreamIds : t # s => y.writer[t] = x.writer[t]
  PROVE  Framed(y) /\ NoFrame(y, s)
<1>1. \A i \in DOMAIN x.ready : x.ready[i].id # s /\ Matches(x, x.ready[i]) BY DEF Framed
<1>2. \A i \in DOMAIN x.ready : Matches(y, x.ready[i]) BY <1>1, FrameTypes DEF Matches
<1>. QED BY <1>1, <1>2 DEF Framed, NoFrame

\* The frame being written is done with; its writer becomes w, the flow record v.
Taken(x, s, w, v) == [x EXCEPT !.inflight = <<>>, !.flow[s] = v, !.writer[s] = w]

\* The frame that was written is forgotten and what it held is paid.
LEMMA TakenDoes ==
  ASSUME NEW x \in Session, NEW s \in StreamIds, NEW p \in Int, NEW w \in Writer, NEW v \in Flow,
         v.max = x.flow[s].max, v.used = x.flow[s].used, NEW y, y = Taken(x, s, w, v)
  PROVE  /\ y \in Session /\ RecvSame(x, y) /\ y.closed = x.closed /\ y.writer[s] = w /\ y.streamFlow = x.streamFlow
         /\ /\ x.closed = "open" /\ SendInv(x, p) /\ x.inflight # <<>> /\ s = x.inflight[1].id
            /\ w.held = 0 /\ w.at \notin {"stream", "conn", "hold"}
            => SendInv(y, p + x.writer[s].held) /\ NoFrame(y, s)
<1>1. PICK u, g, c : u = [x.writer EXCEPT ![s] = w] /\ g = [x.flow EXCEPT ![s] = v] /\ c = <<>> OBVIOUS
<1>2. x.writer \in [StreamIds -> Writer] /\ x.flow \in [StreamIds -> Flow] BY DEF Session
<1>3. y = [x EXCEPT !.inflight = c, !.flow = g, !.writer = u] BY <1>1 DEF Session, Taken
<1>4. u \in [StreamIds -> Writer] /\ u[s] = w /\ \A t \in StreamIds : t # s => u[t] = x.writer[t] BY <1>1, <1>2
<1>5. g \in [StreamIds -> Flow] /\ \A t \in StreamIds : g[t].max = x.flow[t].max /\ g[t].used = x.flow[t].used
  BY <1>1, <1>2
<1>6. c \in Seq(StreamFrame) BY <1>1
<1>7. y \in Session BY <1>3, <1>4, <1>5, <1>6, ZenonT(60) DEF Session
<1>8. y.writer = u /\ y.flow = g /\ y.inflight = c /\ y.conn = x.conn /\ y.ready = x.ready BY <1>3 DEF Session
<1>9. RecvSame(x, y) /\ y.next = x.next /\ y.me = x.me /\ y.closed = x.closed /\ y.recorded = x.recorded
      /\ y.streamFlow = x.streamFlow BY <1>3 DEF Session, RecvSame, DataSame, AdmitSame
<1>10. ASSUME x.closed = "open", SendInv(x, p), x.inflight # <<>>, s = x.inflight[1].id,
              w.held = 0, w.at \notin {"stream", "conn", "hold"}
       PROVE  SendInv(y, p + x.writer[s].held) /\ NoFrame(y, s)
  <2>1. Framed(x) /\ Hands(x) BY <1>10 DEF SendInv
  <2>2. Framed(y) /\ NoFrame(y, s)
    <3>1. y.ready = x.ready /\ y.inflight = <<>> /\ \A t \in StreamIds : t # s => y.writer[t] = x.writer[t]
      BY <1>1, <1>4, <1>8
    <3>. QED BY <1>7, <1>10, <2>1, <3>1, FramedTaken
  <2>3. Matches(x, x.inflight[1]) BY <1>10, <2>1 DEF Framed
  <2>4. x.writer[s].at \in {"queued", "closing"} BY <1>10, <2>3 DEF Matches
  <2>5. Claimed(x.writer[s]) = x.writer[s].held /\ Claimed(w) = 0 /\ x.writer[s].held \in Int
    BY <1>2, <1>10, <2>4 DEF Claimed, Writer
  <2>6. PICK q : q = p + x.writer[s].held OBVIOUS
  <2>7. x.conn.used \in Int /\ \A t \in StreamIds : x.flow[t].used \in Int BY DEF Session, CreditRecord, Flow
  <2>8. q \in Int /\ y.conn.used = x.conn.used + (q - p) + (Claimed(y.writer[s]) - Claimed(x.writer[s]))
        /\ y.conn.used >= x.conn.used BY <1>4, <1>8, <2>5, <2>6, <2>7
  <2>9. /\ y.conn.max = x.conn.max
        /\ \A t \in StreamIds : y.flow[t].max = x.flow[t].max /\ y.flow[t].used >= x.flow[t].used
        /\ \A t \in StreamIds : t # s => y.writer[t] = x.writer[t] BY <1>4, <1>5, <1>8, <2>7
  <2>10. y.writer[s].held >= 0 /\ y.writer[s].held = 0 /\ y.writer[s].at \notin {"stream", "conn", "hold"}
    BY <1>4, <1>8, <1>10
  <2>11. x.writer[s].at # "none" BY <2>4
  <2>12. SendInv(y, q)
    <3>1. x.closed = "open" /\ SendInv(x, p) BY <1>10
    <3>2. y.me = x.me /\ y.next = x.next /\ y.recorded = x.recorded BY <1>9
    <3>. QED BY <1>7, <2>2, <2>8, <2>9, <2>10, <2>11, <3>1, <3>2, WriterMoves
  <2>. QED BY <2>2, <2>6, <2>12
<1>. QED BY <1>4, <1>7, <1>8, <1>9, <1>10

\* What FrameWritten makes of a writer that has sent n bytes on its credit.
Wrote(w, n) == [w EXCEPT !.left = w.left - n, !.held = 0]
Written(x, s, w, n) == [x EXCEPT !.inflight = <<>>, !.flow[s].sendOffset = @ + n, !.writer[s] = w]

\* FrameWritten for a frame with data, with its parts named.
LEMMA WrittenIs ==
  ASSUME NEW x, ~x.inflight[1].fin
  PROVE  LET f == x.inflight[1]
             s == f.id
             b == Written(x, s, Wrote(x.writer[s], f.n), f.n)
         IN FrameWritten(x) = IF b.writer[s].left = 0 THEN Settled(b, s)
                              ELSE IF b.closed # "open" THEN FailWriter(b, s) ELSE ClaimSendCredit(b, s)
BY DEF FrameWritten, Written, Wrote

\* The two ways to write the same record.
LEMMA TakenIs ==
  ASSUME NEW x \in Session, NEW s \in StreamIds, NEW n \in Int, NEW w \in Writer, NEW v,
         v = [x.flow[s] EXCEPT !.sendOffset = @ + n]
  PROVE  Taken(x, s, w, v) = Written(x, s, w, n)
<1>1. PICK a : a = [x EXCEPT !.inflight = <<>>] OBVIOUS
<1>2. a.flow = x.flow /\ a.writer = x.writer BY <1>1 DEF Session
<1>3. PICK b : b = [a EXCEPT !.flow[s] = v] OBVIOUS
<1>5. Taken(x, s, w, v) = [b EXCEPT !.writer[s] = w] BY <1>1, <1>3 DEF Taken
<1>6. b = [a EXCEPT !.flow[s].sendOffset = @ + n] BY <1>2, <1>3
<1>7. Written(x, s, w, n) = [b EXCEPT !.writer[s] = w] BY <1>1, <1>6 DEF Written
<1>. QED BY <1>5, <1>7

\* The socket took a frame: the credit it was sent on is paid.
LEMMA FrameWrittenDoes ==
  ASSUME NEW x \in Session, NEW p \in Int, x.inflight # <<>>, SendInv(x, p)
  PROVE  LET y == FrameWritten(x)
             n == x.writer[x.inflight[1].id].held
         IN /\ y \in Session /\ RecvSame(x, y) /\ SendInv(y, p + n)
            /\ x.closed = "open" => n >= 0
<1>1. PICK f, s, held, y : f = x.inflight[1] /\ s = f.id /\ held = x.writer[s].held /\ y = FrameWritten(x) OBVIOUS
<1>2. f \in StreamFrame /\ s \in StreamIds /\ f.n \in Int
  <2>1. f \in StreamFrame BY <1>1, FrameTypes
  <2>. QED BY <1>1, <2>1 DEF StreamFrame
<1>3. x.writer[s] \in Writer /\ x.flow[s] \in Flow /\ held \in Int
  <2>1. x.writer[s] \in Writer /\ x.flow[s] \in Flow BY <1>2 DEF Session
  <2>. QED BY <1>1, <2>1 DEF Writer
<1>4. x.closed = "open" => held >= 0 BY <1>1, <1>2 DEF SendInv, Hands
<1>5. x.closed = "open" => Matches(x, f) BY <1>1 DEF SendInv, Framed
<1>6. CASE f.fin
  <2>1. PICK k \in Phases : k = "closed" BY DEF Phases
  <2>2. PICK w, m : w = [x.writer[s] EXCEPT !.at = k] /\ m = x.sendStreams \ {s} OBVIOUS
  <2>2a. PICK o : o = [x.order EXCEPT ![s] = 0] OBVIOUS
  <2>3. w \in Writer /\ w.at = "closed" /\ w.held = held BY <1>1, <1>3, <2>1, <2>2 DEF Writer
  <2>4. o \in [StreamIds -> {0, 1}] /\ m \in SUBSET StreamIds
    <3>1. x.order \in [StreamIds -> {0, 1}] /\ x.sendStreams \in SUBSET StreamIds BY DEF Session
    <3>2. o \in [StreamIds -> {0, 1}] BY <1>2, <2>2a, <3>1
    <3>3. m \in SUBSET StreamIds BY <2>2, <3>1
    <3>. QED BY <3>2, <3>3
  <2>5. PICK a, b : a = [x EXCEPT !.sendStreams = m, !.order = o] /\ b = Taken(a, s, w, x.flow[s]) OBVIOUS
  <2>6. a \in Session /\ SendSame(x, a) /\ RecvSame(x, a) /\ a.inflight = x.inflight /\ a.flow = x.flow
        /\ a.writer = x.writer
    <3>1. a \in Session /\ a.inflight = x.inflight /\ a.flow = x.flow /\ a.writer = x.writer BY <2>4, <2>5 DEF Session
    <3>2. SendSame(x, a) BY <2>5 DEF Session, SendSame
    <3>3. RecvSame(x, a) BY <2>5 DEF Session, RecvSame, DataSame, AdmitSame
    <3>. QED BY <3>1, <3>2, <3>3
  <2>7. y = MaybeDeleteStreamFlow(b, s)
    <3>1. y = MaybeDeleteStreamFlow(
                 [x EXCEPT !.inflight = <<>>, !.sendStreams = @ \ {s}, !.order[s] = 0, !.writer[s].at = "closed"], s)
      BY <1>1, <1>6 DEF FrameWritten
    <3>2. b = [x EXCEPT !.inflight = <<>>, !.sendStreams = @ \ {s}, !.order[s] = 0, !.writer[s].at = "closed"]
      <4>1. b = [a EXCEPT !.inflight = <<>>, !.flow[s] = x.flow[s], !.writer[s] = w] BY <2>5 DEF Taken
      <4>2. [a EXCEPT !.flow[s] = x.flow[s]] = a BY <1>2, <2>6 DEF Session
      <4>3. b = [a EXCEPT !.inflight = <<>>, !.writer[s] = w] BY <1>2, <2>6, <4>1, <4>2 DEF Session
      <4>. QED BY <2>1, <2>2, <2>2a, <2>5, <4>3 DEF Session
    <3>. QED BY <3>1, <3>2
  <2>8. /\ b \in Session /\ RecvSame(a, b) /\ b.closed = a.closed
        /\ /\ a.closed = "open" /\ SendInv(a, p) /\ a.inflight # <<>> /\ s = a.inflight[1].id
           /\ w.held = 0 /\ w.at \notin {"stream", "conn", "hold"}
           => SendInv(b, p + a.writer[s].held)
    <3>1. x.flow[s] \in Flow /\ x.flow[s].max = a.flow[s].max /\ x.flow[s].used = a.flow[s].used BY <1>3, <2>6
    <3>2. b = Taken(a, s, w, x.flow[s]) BY <2>5
    <3>. QED BY <1>2, <2>3, <2>6, <3>1, <3>2, TakenDoes
  <2>9. y \in Session /\ RecvSame(b, y) /\ y.closed = b.closed
    BY <1>2, <2>7, <2>8, MaybeDeleteDoes DEF RecvSame, AdmitSame
  <2>10. RecvSame(x, y) BY <2>6, <2>8, <2>9, WakesCompose
  <2>11. SendInv(y, p + held)
    <3>1. CASE x.closed = "open"
      <4>1. Matches(x, f) /\ Hands(x) BY <1>5, <3>1 DEF SendInv
      <4>2. held = 0 BY <1>1, <1>2, <1>6, <4>1 DEF Matches, Hands
      <4>3. SendInv(a, p) /\ a.closed = "open" BY <2>6, <3>1, SendInvKept DEF SendSame
      <4>4. SendInv(b, p + a.writer[s].held) BY <1>1, <2>3, <2>6, <2>8, <4>2, <4>3
      <4>5. SendInv(b, p + held) BY <1>1, <2>6, <4>4
      <4>6. p + held \in Int BY <1>3
      <4>. QED BY <1>2, <2>7, <2>8, <4>5, <4>6, MaybeDeleteKeeps
    <3>2. CASE x.closed # "open" BY <2>6, <2>8, <2>9, <3>2 DEF SendSame, SendInv
    <3>. QED BY <3>1, <3>2
  <2>. QED BY <1>1, <1>4, <2>9, <2>10, <2>11
<1>7. CASE ~f.fin
  <2>1. PICK l, w, so, v, b : /\ l = x.writer[s].left - f.n /\ w = Wrote(x.writer[s], f.n)
                              /\ so = x.flow[s].sendOffset + f.n /\ v = [x.flow[s] EXCEPT !.sendOffset = so]
                              /\ b = Taken(x, s, w, v) OBVIOUS
  <2>2. l \in Int /\ so \in Int BY <1>2, <1>3, <2>1, SMTT(30) DEF Writer, Flow
  <2>3. w \in Writer /\ w.at = x.writer[s].at /\ w.held = 0 /\ w.left = l
    <3>1. PICK z \in Int : z = 0 OBVIOUS
    <3>2. w = [x.writer[s] EXCEPT !.left = l, !.held = z] BY <2>1, <3>1 DEF Wrote
    <3>. QED BY <1>3, <2>2, <3>1, <3>2 DEF Writer
  <2>4. v \in Flow /\ v.max = x.flow[s].max /\ v.used = x.flow[s].used BY <1>3, <2>1, <2>2 DEF Flow
  <2>5. b = Written(x, s, w, f.n)
    <3>1. b = Taken(x, s, w, v) /\ v = [x.flow[s] EXCEPT !.sendOffset = @ + f.n] BY <2>1
    <3>. QED BY <1>2, <2>3, <3>1, TakenIs
  <2>6. y = IF b.writer[s].left = 0 THEN Settled(b, s)
            ELSE IF b.closed # "open" THEN FailWriter(b, s) ELSE ClaimSendCredit(b, s)
    <3>1. b = Written(x, s, Wrote(x.writer[s], f.n), f.n) BY <2>1, <2>5
    <3>. QED BY <1>1, <1>7, <3>1, WrittenIs
  <2>7. /\ b \in Session /\ RecvSame(x, b) /\ b.closed = x.closed /\ b.writer[s] = w
        /\ /\ x.closed = "open" /\ SendInv(x, p) /\ x.inflight # <<>> /\ s = x.inflight[1].id
           /\ w.held = 0 /\ w.at \notin {"stream", "conn", "hold"}
           => SendInv(b, p + x.writer[s].held) /\ NoFrame(b, s)
    <3>1. b = Taken(x, s, w, v) BY <2>1
    <3>. QED BY <1>2, <2>3, <2>4, <3>1, TakenDoes
  <2>8. PICK q \in Int : q = p + held BY <1>3
  <2>9. ASSUME x.closed = "open"
        PROVE  SendInv(b, q) /\ NoFrame(b, s) /\ b.writer[s].at = "queued" /\ b.writer[s].left >= 0
               /\ Claimed(b.writer[s]) = 0
    <3>1. Matches(x, f) BY <1>5, <2>9
    <3>2. x.writer[s].at = "queued" /\ f.n <= x.writer[s].left BY <1>1, <1>7, <3>1 DEF Matches
    <3>3. SendInv(b, p + x.writer[s].held) /\ NoFrame(b, s) BY <1>1, <2>3, <2>7, <2>9, <3>2
    <3>4. x.writer[s].left \in Int BY <1>3 DEF Writer
    <3>5. l >= 0 BY <1>2, <2>1, <3>2, <3>4
    <3>. QED BY <1>1, <2>3, <2>7, <2>8, <3>2, <3>3, <3>5 DEF Claimed
  <2>10. CASE b.writer[s].left = 0
    <3>1. y = Settled(b, s) BY <2>6, <2>10
    <3>2. /\ y \in Session /\ RecvSame(b, y) /\ y.closed = b.closed
          /\ /\ b.closed = "open" /\ SendInv(b, q) /\ NoFrame(b, s)
             /\ b.writer[s].at # "none" /\ Claimed(b.writer[s]) = 0 /\ b.writer[s].held = 0
             => SendInv(y, q) BY <1>2, <2>7, <2>8, <3>1, SettledDoes
    <3>3. RecvSame(x, y) BY <2>7, <3>2, WakesCompose
    <3>4. SendInv(y, q) BY <2>3, <2>7, <2>9, <3>2 DEF SendInv
    <3>. QED BY <1>1, <1>4, <2>8, <3>2, <3>3, <3>4
  <2>11. CASE b.writer[s].left # 0 /\ b.closed # "open"
    <3>1. y = FailWriter(b, s) BY <2>6, <2>11
    <3>2. y \in Session /\ RecvSame(b, y) BY <1>2, <2>7, <3>1, FailWriterDoes
    <3>3. RecvSame(x, y) BY <2>7, <3>2, WakesCompose
    <3>4. y.closed # "open" /\ x.closed # "open" BY <2>7, <2>11, <3>2 DEF RecvSame, AdmitSame
    <3>. QED BY <1>1, <1>4, <3>2, <3>3, <3>4 DEF SendInv
  <2>12. CASE b.writer[s].left # 0 /\ b.closed = "open"
    <3>1. y = ClaimSendCredit(b, s) BY <2>6, <2>12
    <3>2. SendInv(b, q) /\ NoFrame(b, s) /\ b.writer[s].at # "none" /\ b.writer[s].left >= 0
          /\ Claimed(b.writer[s]) = 0 BY <2>7, <2>9, <2>12
    <3>3. b.writer[s].left > 0 /\ b.writer[s].held = 0 BY <2>2, <2>3, <2>7, <2>12, <3>2
    <3>4. /\ y \in Session /\ RecvSame(b, y) /\ SendInv(y, q + Claimed(b.writer[s]))
      BY <1>2, <2>7, <2>12, <3>1, <3>2, <3>3, ClaimKeeps
    <3>5. q + Claimed(b.writer[s]) = q BY <3>2
    <3>6. RecvSame(x, y) BY <2>7, <3>4, WakesCompose
    <3>. QED BY <1>1, <1>4, <2>8, <3>4, <3>5, <3>6
  <2>. QED BY <2>10, <2>11, <2>12
<1>. QED BY <1>6, <1>7

\* What a step of the sending side leaves to the receiving side.
LEMMA RecvSameKeeps ==
  ASSUME NEW x \in Session, NEW y \in Session, NEW h, NEW l, RecvSame(x, y)
  PROVE  /\ DataInv(x) => DataInv(y)
         /\ AdmitInv(x, h, l) => AdmitInv(y, h, l)
         /\ y.me = x.me /\ y.closed = x.closed
BY DataInvKept, AdmitInvKept DEF RecvSame, AdmitSame

\* A round of a write changes nothing of the receiving side, whatever the state.
LEMMA ClaimTypes ==
  ASSUME NEW x \in Session, NEW s \in StreamIds
  PROVE  LET y == ClaimSendCredit(x, s) IN y \in Session /\ RecvSame(x, y)
<1>1. PICK w, want, a, n, y :
        /\ w = x.writer[s] /\ want = AtMost(w.left, MaxFrame) /\ a = TryClaim(x.flow[s], want)
        /\ n = TryClaim(x.conn, a) /\ y = ClaimSendCredit(x, s) OBVIOUS
<1>2. w \in Writer /\ x.flow[s] \in Flow /\ x.conn \in CreditRecord BY <1>1 DEF Session
<1>3. want \in Int
  <2>1. MaxFrame \in Int /\ w.left \in Int BY <1>1, <1>2, JsAssumption DEF Writer
  <2>. QED BY <1>1, <2>1 DEF AtMost
<1>4. x.flow[s].max \in Int /\ x.flow[s].used \in Int /\ x.conn.max \in Int /\ x.conn.used \in Int
  BY <1>2 DEF Flow, CreditRecord
<1>5. a \in Int BY <1>1, <1>3, <1>4 DEF TryClaim, AtMost
<1>6. n \in Int BY <1>1, <1>4, <1>5 DEF TryClaim, AtMost
<1>7. PICK b, k, no : b = FALSE /\ k = "queued" /\ no = 0 OBVIOUS
<1>8. b \in BOOLEAN /\ k \in Phases /\ no \in Int
  <2>1. b \in BOOLEAN BY <1>7
  <2>2. k \in Phases BY <1>7 DEF Phases
  <2>3. no \in Int BY <1>7
  <2>. QED BY <2>1, <2>2, <2>3
<1>9. CASE w.at = "queued" /\ s \notin x.streamFlow
  <2>1. PICK v, f : /\ v = [w EXCEPT !.at = k, !.held = no, !.woken = b]
                    /\ f = [type |-> "stream", id |-> s, fin |-> b, n |-> want] OBVIOUS
  <2>2. v \in Writer BY <1>2, <1>7, <1>8, <2>1 DEF Writer
  <2>3. f \in StreamFrame BY <1>3, <1>8, <2>1 DEF StreamFrame
  <2>4. y = Queue(x, s, v, f)
    <3>1. y = [x EXCEPT !.writer[s] = [@ EXCEPT !.at = k, !.held = no, !.woken = b], !.ready = Append(@, f)]
      BY <1>1, <1>7, <1>9, <2>1 DEF ClaimSendCredit
    <3>. QED BY <1>1, <2>1, <3>1 DEF Queue
  <2>5. y \in Session /\ RecvSame(x, y) BY <2>2, <2>3, <2>4, QueuePut
  <2>. QED BY <1>1, <2>5
<1>10. CASE ~(w.at = "queued" /\ s \notin x.streamFlow) /\ a = 0 /\ x.flow[s].shut
  <2>1. y = FailWriter(x, s) BY <1>1, <1>10 DEF ClaimSendCredit
  <2>. QED BY <1>1, <2>1, FailWriterDoes
<1>11. CASE ~(w.at = "queued" /\ s \notin x.streamFlow) /\ a = 0 /\ ~x.flow[s].shut
  <2>0. PICK l \in Phases : l = "stream" BY DEF Phases
  <2>1. PICK v : v = [w EXCEPT !.at = l, !.woken = b] OBVIOUS
  <2>2. v \in Writer BY <1>2, <1>8, <2>0, <2>1 DEF Writer
  <2>3. y = PutWriter(x, s, v)
    <3>1. y = [x EXCEPT !.writer[s].at = "stream", !.writer[s].woken = FALSE] BY <1>1, <1>11 DEF ClaimSendCredit
    <3>. QED BY <1>1, <1>7, <2>0, <2>1, <3>1 DEF PutWriter, Session, Writer
  <2>. QED BY <1>1, <2>2, <2>3, WriterPut
<1>12. CASE ~(w.at = "queued" /\ s \notin x.streamFlow) /\ a # 0 /\ n = 0
  <2>0. PICK l \in Phases : l = "conn" BY DEF Phases
  <2>1. PICK v : v = [w EXCEPT !.at = l, !.woken = b] OBVIOUS
  <2>2. v \in Writer BY <1>2, <1>8, <2>0, <2>1 DEF Writer
  <2>3. y = PutWriter(x, s, v)
    <3>1. y = [x EXCEPT !.writer[s].at = "conn", !.writer[s].woken = FALSE] BY <1>1, <1>12 DEF ClaimSendCredit
    <3>. QED BY <1>1, <1>7, <2>0, <2>1, <3>1 DEF PutWriter, Session, Writer
  <2>. QED BY <1>1, <2>2, <2>3, WriterPut
<1>13. CASE ~(w.at = "queued" /\ s \notin x.streamFlow) /\ a # 0 /\ n # 0
  <2>1. PICK v, f, c, g, cu, gu : /\ v = [w EXCEPT !.at = k, !.held = n, !.woken = b]
                                  /\ f = [type |-> "stream", id |-> s, fin |-> b, n |-> n]
                                  /\ cu = x.conn.used + n /\ gu = x.flow[s].used + n
                                  /\ c = [x.conn EXCEPT !.used = cu] /\ g = [x.flow[s] EXCEPT !.used = gu] OBVIOUS
  <2>2. v \in Writer BY <1>2, <1>6, <1>7, <1>8, <2>1 DEF Writer
  <2>3. f \in StreamFrame BY <1>6, <1>8, <2>1 DEF StreamFrame
  <2>4. cu \in Int /\ gu \in Int BY <1>4, <1>6, <2>1
  <2>5. c \in CreditRecord BY <1>2, <2>1, <2>4 DEF CreditRecord
  <2>6. g \in Flow BY <1>2, <2>1, <2>4 DEF Flow
  <2>6a. PICK u, z : u = [x.flow EXCEPT ![s] = g] /\ z = [x EXCEPT !.conn = c, !.flow = u] OBVIOUS
  <2>6b. x.flow \in [StreamIds -> Flow] BY DEF Session
  <2>6c. u \in [StreamIds -> Flow] BY <2>6, <2>6a, <2>6b
  <2>6d. z \in Session /\ z.conn = c /\ z.flow = u /\ z.writer = x.writer BY <2>5, <2>6a, <2>6c DEF Session
  <2>6e. RecvSame(x, z) BY <2>6a DEF Session, RecvSame, DataSame, AdmitSame
  <2>6f. z = [x EXCEPT !.conn.used = @ + n, !.flow[s].used = @ + n] BY <2>1, <2>6a
  <2>7. y = Queue(z, s, v, f)
    <3>1. y = [[x EXCEPT !.conn.used = @ + n, !.flow[s].used = @ + n] EXCEPT
                 !.writer[s] = [@ EXCEPT !.at = k, !.held = n, !.woken = b], !.ready = Append(@, f)]
      BY <1>1, <1>7, <1>13, <2>1 DEF ClaimSendCredit
    <3>2. y = [z EXCEPT !.writer[s] = [@ EXCEPT !.at = k, !.held = n, !.woken = b], !.ready = Append(@, f)]
      BY <2>6f, <3>1
    <3>3. z.writer[s] = w BY <1>1, <2>6d
    <3>. QED BY <2>1, <3>2, <3>3 DEF Queue
  <2>8. y \in Session /\ RecvSame(z, y) BY <2>2, <2>3, <2>6d, <2>7, QueuePut
  <2>. QED BY <1>1, <2>6e, <2>8, WakesCompose
<1>. QED BY <1>9, <1>10, <1>11, <1>12, <1>13

\* write(): a round of claims for n bytes.
LEMMA WriteStep ==
  ASSUME NEW x \in Session, NEW s \in StreamIds, NEW p \in Int, SendInv(x, p), Usable(x.writer[s]),
         NEW n \in Int, n > 0,
         NEW y, y = ClaimSendCredit([x EXCEPT !.writer[s].left = n, !.writer[s].wrote = @ + n], s)
  PROVE  y \in Session /\ RecvSame(x, y) /\ SendInv(y, p)
<1>1. PICK m, w, z : m = x.writer[s].wrote + n /\ w = [x.writer[s] EXCEPT !.left = n, !.wrote = m] /\ z = PutWriter(x, s, w)
  OBVIOUS
<1>2. x.writer[s] \in Writer BY DEF Session
<1>3. m \in Int BY <1>1, <1>2 DEF Writer
<1>4. w \in Writer /\ w.at = x.writer[s].at /\ w.held = x.writer[s].held /\ w.left = n BY <1>1, <1>2, <1>3 DEF Writer
<1>5. y = ClaimSendCredit(z, s)
  <2>1. z = [x EXCEPT !.writer[s].left = n, !.writer[s].wrote = m] BY <1>1 DEF PutWriter, Session, Writer
  <2>2. z = [x EXCEPT !.writer[s].left = n, !.writer[s].wrote = @ + n] BY <1>1, <2>1 DEF Session, Writer
  <2>. QED BY <2>2
<1>6. z \in Session /\ RecvSame(x, z) /\ z.closed = x.closed /\ z.writer[s] = w BY <1>1, <1>4, WriterPut DEF Rest
<1>7. y \in Session /\ RecvSame(z, y) BY <1>5, <1>6, ClaimTypes
<1>8. RecvSame(x, y) BY <1>6, <1>7, WakesCompose
<1>9. CASE x.closed = "open"
  <2>1. Framed(x) /\ Hands(x) BY <1>9 DEF SendInv
  <2>2. x.writer[s].at = "idle" /\ x.writer[s].held = 0 /\ Claimed(x.writer[s]) = 0 BY <2>1 DEF Usable, Hands, Claimed
  <2>3. NoFrame(x, s) BY <2>1, <2>2, IdleHasNoFrame
  <2>4. SendInv(z, p) /\ NoFrame(z, s)
    <3>1. z = PutWriter(x, s, w) BY <1>1
    <3>2. x.writer[s].at # "none" /\ w.held = 0 /\ w.at \notin {"stream", "conn", "hold"} BY <1>4, <2>2
    <3>. QED BY <1>4, <1>9, <2>2, <2>3, <3>1, <3>2, RestsKeeps
  <2>5. z.writer[s].at # "none" /\ z.writer[s].left > 0 /\ z.writer[s].held = 0 /\ Claimed(z.writer[s]) = 0
    BY <1>4, <1>6, <2>2 DEF Claimed
  <2>6. SendInv(y, p + Claimed(z.writer[s])) BY <1>5, <1>6, <1>9, <2>4, <2>5, ClaimKeeps
  <2>7. p + Claimed(z.writer[s]) = p BY <2>5
  <2>. QED BY <1>7, <1>8, <2>6, <2>7
<1>10. CASE x.closed # "open" BY <1>7, <1>8, <1>10 DEF RecvSame, AdmitSame, SendInv
<1>. QED BY <1>9, <1>10

\* A claim that was woken looks at the connection's credit.
LEMMA ResumeConnStep ==
  ASSUME NEW x \in Session, NEW s \in StreamIds, NEW p \in Int, SendInv(x, p), x.writer[s].at = "conn"
  PROVE  LET y == IF TryClaim(x.conn, 1) = 0 THEN [x EXCEPT !.writer[s].woken = FALSE]
                  ELSE [x EXCEPT !.conn.used = @ + 1, !.writer[s].at = "hold", !.writer[s].woken = FALSE]
         IN y \in Session /\ RecvSame(x, y) /\ SendInv(y, p)
<1>00. PICK y1, y2 :
         /\ y1 = [x EXCEPT !.writer[s].woken = FALSE]
         /\ y2 = [x EXCEPT !.conn.used = @ + 1, !.writer[s].at = "hold", !.writer[s].woken = FALSE] OBVIOUS
<1>01. PICK y : y = IF TryClaim(x.conn, 1) = 0 THEN y1 ELSE y2 OBVIOUS
<1>0. y = IF TryClaim(x.conn, 1) = 0 THEN [x EXCEPT !.writer[s].woken = FALSE]
          ELSE [x EXCEPT !.conn.used = @ + 1, !.writer[s].at = "hold", !.writer[s].woken = FALSE] BY <1>00, <1>01
<1>1. x.writer[s] \in Writer /\ x.conn \in CreditRecord BY DEF Session
<1>2. PICK b, k : b = FALSE /\ k = "hold" OBVIOUS
<1>3. b \in BOOLEAN /\ k \in Phases
  <2>1. b \in BOOLEAN BY <1>2
  <2>2. k \in Phases BY <1>2 DEF Phases
  <2>. QED BY <2>1, <2>2
<1>4. ASSUME x.closed = "open"
      PROVE  /\ Framed(x) /\ NoFrame(x, s) /\ x.writer[s].held = 0 /\ Claimed(x.writer[s]) = 0 /\ x.writer[s].left > 0
  <2>1. Framed(x) /\ Hands(x) BY <1>4 DEF SendInv
  <2>2. NoFrame(x, s) BY <2>1, IdleHasNoFrame
  <2>. QED BY <2>1, <2>2 DEF Hands, Claimed
<1>5. ASSUME TryClaim(x.conn, 1) = 0 PROVE y \in Session /\ RecvSame(x, y) /\ SendInv(y, p)
  <2>1. PICK w : w = [x.writer[s] EXCEPT !.woken = b] OBVIOUS
  <2>2. w \in Writer /\ w.at = "conn" /\ w.held = x.writer[s].held /\ w.left = x.writer[s].left
    BY <1>1, <1>3, <2>1 DEF Writer
  <2>3. y = PutWriter(x, s, w)
    <3>1. y = [x EXCEPT !.writer[s].woken = FALSE] BY <1>00, <1>01, <1>5
    <3>. QED BY <1>2, <2>1, <3>1 DEF PutWriter
  <2>4. y \in Session /\ RecvSame(x, y) BY <2>2, <2>3, WriterPut
  <2>5. ASSUME x.closed = "open" PROVE SendInv(y, p)
    <3>1. SendInv(y, p + Claimed(x.writer[s]))
      <4>1. w.held = 0 /\ w.left > 0 /\ x.writer[s].at # "none" /\ NoFrame(x, s) BY <1>4, <2>2, <2>5
      <4>. QED BY <1>5, <2>2, <2>3, <2>5, <4>1, ParkKeeps
    <3>2. p + Claimed(x.writer[s]) = p BY <1>4, <2>5
    <3>. QED BY <3>1, <3>2
  <2>. QED BY <2>4, <2>5 DEF RecvSame, AdmitSame, SendInv
<1>6. ASSUME TryClaim(x.conn, 1) # 0 PROVE y \in Session /\ RecvSame(x, y) /\ SendInv(y, p)
  <2>1. PICK w, m, c, z : /\ w = [x.writer[s] EXCEPT !.at = k, !.woken = b] /\ m = x.conn.used + 1
                          /\ c = [x.conn EXCEPT !.used = m] /\ z = [x EXCEPT !.conn = c] OBVIOUS
  <2>2. w \in Writer /\ w.at = "hold" /\ w.held = x.writer[s].held /\ w.left = x.writer[s].left
    BY <1>1, <1>2, <1>3, <2>1 DEF Writer
  <2>3. m \in Int /\ x.conn.used \in Int BY <1>1, <2>1 DEF CreditRecord
  <2>4. c \in CreditRecord /\ c.max = x.conn.max /\ c.used = m BY <1>1, <2>1, <2>3 DEF CreditRecord
  <2>5. /\ z \in Session /\ RecvSame(x, z) /\ Rest(x, z) /\ z.conn = c
        /\ z.flow = x.flow /\ z.writer = x.writer BY <2>1, <2>4, CreditPut
  <2>6. y = PutWriter(z, s, w)
    <3>1. y = [x EXCEPT !.conn.used = @ + 1, !.writer[s].at = "hold", !.writer[s].woken = FALSE] BY <1>00, <1>01, <1>6
    <3>2. z = [x EXCEPT !.conn.used = @ + 1] BY <2>1
    <3>3. y = [z EXCEPT !.writer[s].at = "hold", !.writer[s].woken = FALSE] BY <3>1, <3>2
    <3>4. z.writer[s] = x.writer[s] BY <2>5
    <3>5. w = [z.writer[s] EXCEPT !.at = "hold", !.woken = FALSE] BY <1>2, <2>1, <3>4
    <3>6. z \in Session BY <2>5
    <3>. QED BY <3>3, <3>5, <3>6 DEF PutWriter, Session, Writer
  <2>7. /\ y \in Session /\ RecvSame(z, y) /\ Rest(z, y) /\ y.conn = z.conn /\ y.flow = z.flow
        /\ y.writer[s] = w /\ \A t \in StreamIds : t # s => y.writer[t] = z.writer[t] BY <2>2, <2>5, <2>6, WriterPut
  <2>8. RecvSame(x, y) /\ Rest(x, y) BY <2>5, <2>7, WakesCompose
  <2>9. ASSUME x.closed = "open" PROVE SendInv(y, p)
    <3>1. Framed(x) /\ NoFrame(x, s) /\ x.writer[s].held = 0 /\ Claimed(x.writer[s]) = 0 /\ x.writer[s].left > 0
      BY <1>4, <2>9
    <3>2. Framed(y) BY <2>5, <2>7, <2>8, <3>1, FramedSame DEF Rest
    <3>3. Claimed(w) = 1 BY <2>2 DEF Claimed
    <3>4. y.conn.used = x.conn.used + (p - p) + (Claimed(y.writer[s]) - Claimed(x.writer[s]))
          /\ y.conn.used >= x.conn.used BY <2>1, <2>3, <2>4, <2>5, <2>7, <3>1, <3>3
    <3>5. \A t \in StreamIds : x.flow[t].used \in Int BY DEF Session, Flow
    <3>6. /\ y.me = x.me /\ y.next = x.next /\ y.recorded = x.recorded /\ y.conn.max = x.conn.max
          /\ \A t \in StreamIds : y.flow[t].max = x.flow[t].max /\ y.flow[t].used >= x.flow[t].used
          /\ \A t \in StreamIds : t # s => y.writer[t] = x.writer[t] BY <2>4, <2>5, <2>7, <2>8, <3>5 DEF Rest
    <3>7. y.writer[s].at = "hold" /\ y.writer[s].held = 0 /\ y.writer[s].held >= 0 /\ y.writer[s].left > 0
      BY <2>2, <2>7, <3>1
    <3>8. x.writer[s].at # "none" OBVIOUS
    <3>. QED BY <2>7, <2>9, <3>2, <3>4, <3>6, <3>7, <3>8, WriterMoves
  <2>. QED BY <2>7, <2>8, <2>9 DEF RecvSame, AdmitSame, SendInv
<1>7. y \in Session /\ RecvSame(x, y) /\ SendInv(y, p) BY <1>5, <1>6
<1>. QED BY <1>0, <1>7

\* A claim goes on from the stream's credit.
LEMMA ResumeStreamStep ==
  ASSUME NEW x \in Session, NEW s \in StreamIds, NEW p \in Int, SendInv(x, p), x.writer[s].at = "stream",
         NEW y, y = ClaimSendCredit(x, s)
  PROVE  y \in Session /\ RecvSame(x, y) /\ SendInv(y, p)
<1>1. y \in Session /\ RecvSame(x, y) BY ClaimTypes
<1>2. ASSUME x.closed = "open" PROVE SendInv(y, p)
  <2>1. Framed(x) /\ Hands(x) BY <1>2 DEF SendInv
  <2>2. NoFrame(x, s) BY <2>1, IdleHasNoFrame
  <2>3. x.writer[s].held = 0 /\ Claimed(x.writer[s]) = 0 /\ x.writer[s].left > 0 /\ x.writer[s].at # "none"
    BY <2>1 DEF Hands, Claimed
  <2>4. SendInv(y, p + Claimed(x.writer[s])) BY <1>2, <2>2, <2>3, ClaimKeeps
  <2>5. p + Claimed(x.writer[s]) = p BY <2>3
  <2>. QED BY <2>4, <2>5
<1>. QED BY <1>1, <1>2 DEF RecvSame, AdmitSame, SendInv

\* The unit taken to test the connection is given back, and the claim begins again.
LEMMA ResumeHoldStep ==
  ASSUME NEW x \in Session, NEW s \in StreamIds, NEW p \in Int, SendInv(x, p), x.writer[s].at = "hold",
         x.closed = "open" => p >= 0, NEW y, y = ClaimSendCredit(ReleaseConn(x, 1), s)
  PROVE  y \in Session /\ RecvSame(x, y) /\ SendInv(y, p)
<1>1. PICK a : a = ReleaseConn(x, 1) OBVIOUS
<1>2. /\ a \in Session /\ RecvSame(x, a) /\ Rest(x, a) /\ OnlyWakes(x, a) /\ a.flow = x.flow
      /\ 1 <= x.conn.used => a.conn.used = x.conn.used - 1
      /\ x.closed = "open" /\ Sleepless(x) => Sleepless(a) BY <1>1, ReleaseConnDoes
<1>3. y \in Session /\ RecvSame(a, y) BY <1>1, <1>2, ClaimTypes
<1>4. RecvSame(x, y) BY <1>2, <1>3, WakesCompose
<1>5. ASSUME x.closed = "open" PROVE SendInv(y, p)
  <2>1. Framed(x) /\ Hands(x) /\ Sleepless(x) /\ Conserved(x, p) BY <1>5 DEF SendInv
  <2>2. NoFrame(x, s) BY <2>1, IdleHasNoFrame
  <2>3. x.writer[s].held = 0 /\ Claimed(x.writer[s]) = 1 /\ x.writer[s].left > 0 BY <2>1 DEF Hands, Claimed
  <2>4. 1 <= InHands(x) /\ InHands(x) \in Int BY <2>1, <2>3, InHandsMoves
  <2>5. x.conn.used = p + InHands(x) /\ x.conn.used \in Int BY <2>1 DEF Conserved, InHands, Session, CreditRecord
  <2>6. 1 <= x.conn.used BY <1>5, <2>4, <2>5
  <2>7. PICK q \in Int : q = p - 1 OBVIOUS
  <2>8. a.conn.used = x.conn.used + (q - p) BY <1>2, <2>5, <2>6, <2>7
  <2>9. SendInv(a, q) BY <1>2, <1>5, <2>1, <2>8, WakesKeep
  <2>10. NoFrame(a, s) /\ a.closed = "open" BY <1>2, <1>5, <2>2 DEF Rest, NoFrame
  <2>11. a.writer[s].at = "hold" /\ a.writer[s].held = 0 /\ a.writer[s].left > 0 BY <1>2, <2>3 DEF OnlyWakes
  <2>12. Claimed(a.writer[s]) = 1 BY <2>11 DEF Claimed
  <2>13. SendInv(y, q + Claimed(a.writer[s])) BY <1>1, <1>2, <2>9, <2>10, <2>11, ClaimKeeps
  <2>14. q + Claimed(a.writer[s]) = p BY <2>7, <2>12
  <2>. QED BY <2>13, <2>14
<1>. QED BY <1>3, <1>4, <1>5 DEF RecvSame, AdmitSame, SendInv

\* close() of a writable: the FIN goes to the scheduler.
LEMMA CloseWriterStep ==
  ASSUME NEW x \in Session, NEW s \in StreamIds, NEW p \in Int, SendInv(x, p), Usable(x.writer[s])
  PROVE  LET y == [x EXCEPT !.writer[s].at = "closing",
                            !.ready = Append(@, [type |-> "stream", id |-> s, fin |-> TRUE, n |-> 0])]
         IN y \in Session /\ RecvSame(x, y) /\ SendInv(y, p)
<1>1. PICK k, b, no, f, w, y : /\ k = "closing" /\ b = TRUE /\ no = 0
                               /\ f = [type |-> "stream", id |-> s, fin |-> b, n |-> no]
                               /\ w = [x.writer[s] EXCEPT !.at = k] /\ y = Queue(x, s, w, f) OBVIOUS
<1>2. k \in Phases /\ b \in BOOLEAN /\ no \in Int
  <2>1. k \in Phases BY <1>1 DEF Phases
  <2>2. b \in BOOLEAN BY <1>1
  <2>3. no \in Int BY <1>1
  <2>. QED BY <2>1, <2>2, <2>3
<1>3. x.writer[s] \in Writer BY DEF Session
<1>4. w \in Writer /\ w.at = k /\ w.held = x.writer[s].held BY <1>1, <1>2, <1>3 DEF Writer
<1>5. f \in StreamFrame /\ f.id = s /\ f.fin = b /\ f.n = no BY <1>1, <1>2 DEF StreamFrame
<1>6. y = [x EXCEPT !.writer[s].at = "closing",
                    !.ready = Append(@, [type |-> "stream", id |-> s, fin |-> TRUE, n |-> 0])] BY <1>1 DEF Queue
<1>6a. y = Queue(x, s, w, f) BY <1>1
<1>7. /\ y \in Session /\ RecvSame(x, y)
      /\ y.me = x.me /\ y.closed = x.closed /\ y.next = x.next /\ y.recorded = x.recorded
      /\ y.conn = x.conn /\ y.flow = x.flow /\ y.ready = Append(x.ready, f) /\ y.inflight = x.inflight
      /\ y.writer[s] = w /\ \A t \in StreamIds : t # s => y.writer[t] = x.writer[t] BY <1>4, <1>5, <1>6a, QueuePut
<1>8. ASSUME x.closed = "open" PROVE SendInv(y, p)
  <2>1. Framed(x) /\ Hands(x) BY <1>8 DEF SendInv
  <2>2. x.writer[s].at = "idle" /\ x.writer[s].held = 0 /\ Claimed(x.writer[s]) = 0 BY <2>1 DEF Usable, Hands, Claimed
  <2>3. NoFrame(x, s) BY <2>1, <2>2, IdleHasNoFrame
  <2>4. w.at = "closing" /\ w.held = 0 BY <1>1, <1>4, <2>2
  <2>5. f.fin /\ f.n = 0 BY <1>1, <1>5
  <2>6. Matches(y, f) BY <1>5, <1>7, <2>4, <2>5 DEF Matches
  <2>7. Framed(y) BY <1>5, <1>7, <2>1, <2>3, <2>6, FramedAppend
  <2>8. x.conn.used \in Int /\ \A t \in StreamIds : x.flow[t].used \in Int BY DEF Session, CreditRecord, Flow
  <2>9. Claimed(w) = 0 BY <2>4 DEF Claimed
  <2>10. y.conn.used = x.conn.used + (p - p) + (Claimed(y.writer[s]) - Claimed(x.writer[s]))
         /\ y.conn.used >= x.conn.used BY <1>7, <2>2, <2>8, <2>9
  <2>11. /\ y.conn.max = x.conn.max
         /\ \A t \in StreamIds : y.flow[t].max = x.flow[t].max /\ y.flow[t].used >= x.flow[t].used BY <1>7, <2>8
  <2>12. y.writer[s].held = 0 /\ y.writer[s].held >= 0 /\ y.writer[s].at = "closing" BY <1>7, <2>4
  <2>13. x.writer[s].at # "none" BY <2>2
  <2>. QED BY <1>7, <1>8, <2>7, <2>10, <2>11, <2>12, <2>13, WriterMoves
<1>9. y \in Session /\ RecvSame(x, y) /\ SendInv(y, p) BY <1>7, <1>8 DEF SendInv
<1>. QED BY <1>6, <1>9

\* A flag of a writer that nothing here looks at is set.
LEMMA FlagStep ==
  ASSUME NEW x \in Session, NEW s \in StreamIds, NEW p \in Int, SendInv(x, p),
         NEW w \in Writer, w.at = x.writer[s].at, w.left = x.writer[s].left, w.held = x.writer[s].held,
         w.woken = x.writer[s].woken, NEW y, y = PutWriter(x, s, w)
  PROVE  y \in Session /\ RecvSame(x, y) /\ Rest(x, y) /\ SendInv(y, p)
<1>1. /\ y \in Session /\ RecvSame(x, y) /\ Rest(x, y) /\ y.conn = x.conn /\ y.flow = x.flow
      /\ y.writer[s] = w /\ \A t \in StreamIds : t # s => y.writer[t] = x.writer[t] BY WriterPut
<1>2. ASSUME x.closed = "open" PROVE SendInv(y, p)
  <2>1. OnlyWakes(x, y) BY <1>1 DEF OnlyWakes
  <2>2. Sleepless(y)
    <3>1. Sleepless(x) BY <1>2 DEF SendInv
    <3>2. \A t \in StreamIds : y.writer[t].at = x.writer[t].at /\ y.writer[t].woken = x.writer[t].woken BY <1>1
    <3>. QED BY <1>1, <3>1, <3>2 DEF Sleepless
  <2>3. y.conn.used = x.conn.used + (p - p) BY <1>1 DEF Session, CreditRecord
  <2>. QED BY <1>1, <1>2, <2>1, <2>2, <2>3, WakesKeep
<1>. QED BY <1>1, <1>2 DEF Rest, SendInv

\* abort() of a writable: at once when it is idle, else after the operation in progress.
LEMMA AbortWriterStep ==
  ASSUME NEW x \in Session, NEW s \in StreamIds, NEW p \in Int, SendInv(x, p), x.closed = "open",
         x.writer[s].at # "none"
  PROVE  LET y == IF x.writer[s].at = "idle" THEN AbortAlgorithm(x, s) ELSE [x EXCEPT !.writer[s].abort = TRUE]
         IN y \in Session /\ RecvSame(x, y) /\ SendInv(y, p)
<1>1. PICK b, w, y1, y2 : /\ b = TRUE /\ w = [x.writer[s] EXCEPT !.abort = b]
                          /\ y1 = AbortAlgorithm(x, s) /\ y2 = PutWriter(x, s, w) OBVIOUS
<1>2. y2 = [x EXCEPT !.writer[s].abort = TRUE] BY <1>1 DEF PutWriter
<1>3. ASSUME x.writer[s].at = "idle" PROVE y1 \in Session /\ RecvSame(x, y1) /\ SendInv(y1, p)
  <2>1. y1 \in Session /\ RecvSame(x, y1) /\ Failed(x, y1, s) BY <1>1, AbortAlgorithmDoes
  <2>2. Framed(x) /\ Hands(x) BY DEF SendInv
  <2>3. NoFrame(x, s) /\ Claimed(x.writer[s]) = 0 BY <1>3, <2>2, IdleHasNoFrame DEF Hands, Claimed
  <2>4. SendInv(y1, p + Claimed(x.writer[s])) BY <2>1, <2>3, FailedKeeps
  <2>5. p + Claimed(x.writer[s]) = p BY <2>3
  <2>. QED BY <2>1, <2>4, <2>5
<1>4. y2 \in Session /\ RecvSame(x, y2) /\ SendInv(y2, p)
  <2>1. x.writer[s] \in Writer BY DEF Session
  <2>2. b \in BOOLEAN BY <1>1
  <2>3. w \in Writer /\ w.at = x.writer[s].at /\ w.left = x.writer[s].left /\ w.held = x.writer[s].held
        /\ w.woken = x.writer[s].woken BY <1>1, <2>1, <2>2 DEF Writer
  <2>4. y2 = PutWriter(x, s, w) BY <1>1
  <2>. QED BY <2>3, <2>4, FlagStep
<1>. QED BY <1>1, <1>2, <1>3, <1>4

\* The sendOrder of a stream is set.
LEMMA SetOrderStep ==
  ASSUME NEW x \in Session, NEW s \in StreamIds
  PROVE  LET y == [x EXCEPT !.order[s] = 1] IN y \in Session /\ RecvSame(x, y) /\ SendSame(x, y)
<1>1. PICK o, y : o = [x.order EXCEPT ![s] = 1] /\ y = [x EXCEPT !.order = o] OBVIOUS
<1>2. x.order \in [StreamIds -> {0, 1}] BY DEF Session
<1>3. o \in [StreamIds -> {0, 1}] BY <1>1, <1>2
<1>4. y \in Session BY <1>1, <1>3 DEF Session
<1>5. RecvSame(x, y) BY <1>1 DEF Session, RecvSame, DataSame, AdmitSame
<1>6. SendSame(x, y) BY <1>1 DEF Session, SendSame
<1>7. y = [x EXCEPT !.order[s] = 1] BY <1>1
<1>. QED BY <1>4, <1>5, <1>6, <1>7

\* A control frame leaves.
LEMMA WriteControlStep ==
  ASSUME NEW x \in Session, x.control # <<>>
  PROVE  LET y == [x EXCEPT !.control = Tail(@)] IN
         y \in Session /\ RecvSame(x, y) /\ SendSame(x, y) /\ Head(x.control) \in Frame
<1>1. x.control \in Seq(Frame) BY DEF Session
<1>2. PICK c, y : c = Tail(x.control) /\ y = [x EXCEPT !.control = c] OBVIOUS
<1>3. c \in Seq(Frame) /\ Head(x.control) \in Frame BY <1>1, <1>2
<1>4. y \in Session BY <1>2, <1>3 DEF Session
<1>5. RecvSame(x, y) BY <1>2 DEF Session, RecvSame, DataSame, AdmitSame
<1>6. SendSame(x, y) BY <1>2 DEF Session, SendSame
<1>7. y = [x EXCEPT !.control = Tail(@)] BY <1>2
<1>. QED BY <1>3, <1>4, <1>5, <1>6, <1>7

\* A nonempty set of naturals has a least member.
LEMMA LeastNat ==
  ASSUME NEW M \in SUBSET Nat, M # {}
  PROVE  \E m \in M : \A j \in M : m <= j
<1>1. PICK m \in M : \A j \in M : ~(<<j, m>> \in OpToRel(<, Nat)) BY NatLessThanWellFounded, WFMin
<1>2. \A j \in M : ~(j < m) BY <1>1 DEF OpToRel
<1>. QED BY <1>2

\* #pickStream picks a frame that is there.
LEMMA PickIsThere ==
  ASSUME NEW x \in Session, x.ready # <<>>
  PROVE  PickStream(x) \in DOMAIN x.ready
<1>1. PICK n \in Nat : n = Len(x.ready) /\ n > 0 /\ DOMAIN x.ready = 1..n
  <2>1. x.ready \in Seq(StreamFrame) BY DEF Session
  <2>. QED BY <2>1
<1>. DEFINE order(i) == x.order[x.ready[i].id]
<1>2. \A i \in 1..n : order(i) = 0 \/ order(i) = 1
  <2>1. \A i \in 1..n : x.ready[i].id \in StreamIds BY <1>1, FrameTypes
  <2>2. \A s \in StreamIds : x.order[s] = 0 \/ x.order[s] = 1 BY DEF Session
  <2>. QED BY <2>1, <2>2
<1>3. PICK M : M = {i \in 1..n : order(i) = 1 \/ \A j \in 1..n : order(j) = 0} OBVIOUS
<1>. HIDE DEF order
<1>4. M \in SUBSET Nat /\ M # {} BY <1>1, <1>2, <1>3
<1>5. PICK m \in M : \A j \in M : m <= j BY <1>4, LeastNat
<1>6. \A j \in 1..n : order(m) > order(j) \/ (order(m) = order(j) /\ m <= j) BY <1>2, <1>3, <1>5
<1>7. m \in DOMAIN x.ready BY <1>1, <1>3, <1>5
<1>8. \E i \in DOMAIN x.ready : \A j \in DOMAIN x.ready : order(i) > order(j) \/ (order(i) = order(j) /\ i <= j)
  BY <1>1, <1>6, <1>7
<1>9. PickStream(x) = CHOOSE i \in DOMAIN x.ready :
        \A j \in DOMAIN x.ready : order(i) > order(j) \/ (order(i) = order(j) /\ i <= j) BY DEF PickStream, order
<1>. QED BY <1>8, <1>9

\* The loop takes a frame and awaits the socket.
LEMMA TakeStreamStep ==
  ASSUME NEW x \in Session, NEW p \in Int, SendInv(x, p), x.ready # <<>>, x.inflight = <<>>, x.closed = "open"
  PROVE  LET i == PickStream(x)
             y == [x EXCEPT !.ready = Without(@, i), !.inflight = <<x.ready[i]>>]
         IN /\ y \in Session /\ RecvSame(x, y) /\ SendInv(y, p) /\ x.ready[i] \in StreamFrame /\ x.ready[i].n >= 0
<1>1. PICK i, f, r, g, y : /\ i = PickStream(x) /\ f = x.ready[i] /\ r = Without(x.ready, i) /\ g = <<f>>
                           /\ y = [x EXCEPT !.ready = r, !.inflight = g] OBVIOUS
<1>2. i \in DOMAIN x.ready BY <1>1, PickIsThere
<1>3. f \in StreamFrame /\ f.id \in StreamIds /\ f.n \in Int BY <1>1, <1>2, FrameTypes DEF StreamFrame
<1>4. r \in Seq(StreamFrame)
  <2>1. x.ready \in Seq(StreamFrame) BY DEF Session
  <2>. QED BY <1>1, <1>2, <2>1, WithoutDoes
<1>5. g \in Seq(StreamFrame) /\ g[1] = f /\ g # <<>> BY <1>1, <1>3
<1>6. y \in Session /\ y.ready = r /\ y.inflight = g BY <1>1, <1>4, <1>5 DEF Session
<1>7. RecvSame(x, y) /\ y.closed = x.closed /\ y.me = x.me /\ y.next = x.next /\ y.recorded = x.recorded
      /\ y.conn = x.conn /\ y.flow = x.flow /\ y.writer = x.writer BY <1>1 DEF Session, RecvSame, DataSame, AdmitSame
<1>8. PICK z : z = [x EXCEPT !.ready = r] OBVIOUS
<1>9. z \in Session /\ z.ready = r /\ z.inflight = x.inflight /\ z.writer = x.writer BY <1>4, <1>8 DEF Session
<1>10. Named(x) /\ Framed(x) /\ Hands(x) /\ Sleepless(x) /\ Conserved(x, p) BY DEF SendInv
<1>11. Framed(z) /\ NoFrame(z, f.id)
  <2>1. z.ready = Without(x.ready, i) /\ f.id = x.ready[i].id BY <1>1, <1>9
  <2>. QED BY <1>2, <1>9, <1>10, <2>1, FramedWithout
<1>12. Matches(x, f) BY <1>1, <1>2, <1>10 DEF Framed
<1>13. Framed(y)
  <2>1. Matches(y, f) BY <1>7, <1>12 DEF Matches
  <2>2. \A j \in DOMAIN y.ready : y.ready[j].id # f.id /\ Matches(y, y.ready[j])
    <3>1. \A j \in DOMAIN z.ready : z.ready[j].id # f.id /\ Matches(z, z.ready[j]) BY <1>11 DEF Framed, NoFrame
    <3>. QED BY <1>6, <1>7, <1>9, <3>1 DEF Matches
  <2>3. \A j, k \in DOMAIN y.ready : y.ready[j].id = y.ready[k].id => j = k BY <1>6, <1>9, <1>11 DEF Framed
  <2>4. y.inflight[1] = f /\ y.inflight = <<y.inflight[1]>> BY <1>1, <1>5, <1>6
  <2>. QED BY <2>1, <2>2, <2>3, <2>4 DEF Framed
<1>14. Named(y) /\ Hands(y) /\ Sleepless(y) /\ Conserved(y, p) BY <1>7, <1>10 DEF Named, Hands, Sleepless, Conserved
<1>15. SendInv(y, p) BY <1>13, <1>14 DEF SendInv
<1>16. y = [x EXCEPT !.ready = Without(@, i), !.inflight = <<x.ready[i]>>] BY <1>1
<1>17. f.n >= 0 BY <1>3, <1>12 DEF Matches
<1>. QED BY <1>1, <1>3, <1>6, <1>7, <1>15, <1>16, <1>17

\* Writers are woken, and who sleeps has nothing to go on with.
LEMMA WakesStep ==
  ASSUME NEW x \in Session, NEW y \in Session, NEW p \in Int, SendInv(x, p), Rest(x, y), OnlyWakes(x, y),
         y.conn.used = x.conn.used, x.closed = "open" /\ Sleepless(x) => Sleepless(y)
  PROVE  SendInv(y, p)
<1>1. ASSUME x.closed = "open" PROVE SendInv(y, p)
  <2>1. Sleepless(y) BY <1>1 DEF SendInv
  <2>2. y.conn.used = x.conn.used + (p - p) BY DEF Session, CreditRecord
  <2>. QED BY <1>1, <2>1, <2>2, WakesKeep
<1>. QED BY <1>1 DEF Rest, SendInv

\* MAX_DATA.
LEMMA MaxDataStep ==
  ASSUME NEW x \in Session, NEW m \in Int, NEW p \in Int, SendInv(x, p), NEW y, y = IncreaseConn(x, m)
  PROVE  y \in Session /\ RecvSame(x, y) /\ SendInv(y, p)
<1>1. /\ y \in Session /\ RecvSame(x, y) /\ Rest(x, y) /\ OnlyWakes(x, y) /\ y.flow = x.flow
      /\ y.conn.used = x.conn.used
      /\ x.closed = "open" /\ Sleepless(x) => Sleepless(y) BY IncreaseConnDoes
<1>. QED BY <1>1, WakesStep

\* MAX_STREAM_DATA.
LEMMA MaxStreamDataStep ==
  ASSUME NEW x \in Session, NEW s \in StreamIds, NEW m \in Int, NEW p \in Int, SendInv(x, p),
         NEW y, y = IncreaseStream(x, s, m)
  PROVE  y \in Session /\ RecvSame(x, y) /\ SendInv(y, p)
<1>1. /\ y \in Session /\ RecvSame(x, y) /\ Rest(x, y) /\ OnlyWakes(x, y) /\ y.conn = x.conn
      /\ x.closed = "open" /\ Sleepless(x) => Sleepless(y) BY IncreaseStreamDoes
<1>. QED BY <1>1, WakesStep

\* MAX_STREAMS.
LEMMA MaxStreamsStep ==
  ASSUME NEW x \in Session, NEW d \in Dirs, NEW m \in Int, NEW y, y = IncreaseOpens(x, d, m)
  PROVE  y \in Session /\ RecvSame(x, y) /\ SendSame(x, y) /\ y.writer = x.writer /\ y.flow = x.flow
         /\ y.conn = x.conn /\ y.streamFlow = x.streamFlow
<1>1. x.opens \in [Dirs -> CreditRecord] /\ x.opens[d] \in CreditRecord /\ x.opens[d].max \in Int
  BY DEF Session, CreditRecord
<1>2. PICK n, c, o : n = AtLeast(x.opens[d].max, m) /\ c = [x.opens[d] EXCEPT !.max = n] /\ o = [x.opens EXCEPT ![d] = c]
  OBVIOUS
<1>3. n \in Int BY <1>1, <1>2 DEF AtLeast
<1>4. c \in CreditRecord BY <1>1, <1>2, <1>3 DEF CreditRecord
<1>5. o \in [Dirs -> CreditRecord] BY <1>1, <1>2, <1>4
<1>6. y = [x EXCEPT !.opens = o] BY <1>2 DEF IncreaseOpens
<1>7. y \in Session BY <1>5, <1>6 DEF Session
<1>8. SendSame(x, y) /\ y.writer = x.writer /\ y.flow = x.flow /\ y.conn = x.conn /\ y.streamFlow = x.streamFlow
  BY <1>6 DEF Session, SendSame
<1>9. RecvSame(x, y) BY <1>6 DEF Session, RecvSame, DataSame, AdmitSame
<1>. QED BY <1>7, <1>8, <1>9

\* The credits of the streams in R rise to the peer's window, and who waits is woken.
Raised(c, R) ==
  [c EXCEPT
     !.flow = [s \in StreamIds |-> IF s \in R THEN [@[s] EXCEPT !.max = StreamWindow] ELSE @[s]],
     !.writer = [s \in StreamIds |-> IF s \in R /\ @[s].at = "stream" THEN [@[s] EXCEPT !.woken = TRUE] ELSE @[s]]]

\* The credits of the streams that exist are seeded, and who waits is woken.
LEMMA RaisedStep ==
  ASSUME NEW x \in Session, NEW R \in SUBSET StreamIds, NEW p \in Int, SendInv(x, p), NEW y, y = Raised(x, R)
  PROVE  y \in Session /\ RecvSame(x, y) /\ SendInv(y, p)
<1>a. PICK b : b = TRUE OBVIOUS
<1>b. PICK g : g = [s \in StreamIds |-> IF s \in R THEN [x.flow[s] EXCEPT !.max = StreamWindow] ELSE x.flow[s]] BY Zenon
<1>c. PICK u : u = [s \in StreamIds |-> IF s \in R /\ x.writer[s].at = "stream" THEN [x.writer[s] EXCEPT !.woken = b]
                                        ELSE x.writer[s]] BY Zenon
<1>0. /\ b = TRUE
      /\ g = [s \in StreamIds |-> IF s \in R THEN [x.flow[s] EXCEPT !.max = StreamWindow] ELSE x.flow[s]]
      /\ u = [s \in StreamIds |-> IF s \in R /\ x.writer[s].at = "stream" THEN [x.writer[s] EXCEPT !.woken = b]
                                  ELSE x.writer[s]] BY <1>a, <1>b, <1>c, Zenon
<1>1. y = [x EXCEPT !.flow = g, !.writer = u] BY <1>0 DEF Raised, Session
<1>2. StreamWindow \in Int /\ b \in BOOLEAN BY <1>0, JsAssumption
<1>3. \A s \in StreamIds : x.flow[s] \in Flow /\ x.writer[s] \in Writer BY DEF Session
<1>4. \A s \in StreamIds : g[s] \in Flow /\ g[s].used = x.flow[s].used /\ (s \notin R => g[s] = x.flow[s])
  <2>. TAKE s \in StreamIds
  <2>1. x.flow[s] \in Flow BY <1>3
  <2>2. g[s] = IF s \in R THEN [x.flow[s] EXCEPT !.max = StreamWindow] ELSE x.flow[s] BY <1>0
  <2>. QED BY <1>2, <2>1, <2>2 DEF Flow
<1>5. \A s \in StreamIds :
        /\ u[s] \in Writer /\ u[s].at = x.writer[s].at /\ u[s].left = x.writer[s].left /\ u[s].held = x.writer[s].held
        /\ (x.writer[s].woken => u[s].woken) /\ (s \in R /\ x.writer[s].at = "stream" => u[s].woken)
        /\ (s \notin R => u[s] = x.writer[s])
  <2>. TAKE s \in StreamIds
  <2>1. x.writer[s] \in Writer BY <1>3
  <2>2. CASE s \in R /\ x.writer[s].at = "stream"
    <3>1. u[s] = [x.writer[s] EXCEPT !.woken = b] BY <1>0, <2>2
    <3>2. u[s] \in Writer /\ u[s].at = x.writer[s].at /\ u[s].left = x.writer[s].left /\ u[s].held = x.writer[s].held
          /\ u[s].woken = b BY <1>2, <2>1, <3>1 DEF Writer
    <3>3. b BY <1>0
    <3>. QED BY <2>2, <3>2, <3>3
  <2>3. CASE ~(s \in R /\ x.writer[s].at = "stream")
    <3>1. u[s] = x.writer[s] BY <1>0, <2>3
    <3>. QED BY <2>1, <2>3, <3>1
  <2>. QED BY <2>2, <2>3
<1>6. g \in [StreamIds -> Flow] /\ u \in [StreamIds -> Writer]
  <2>1. g = [s \in StreamIds |-> g[s]] BY <1>0
  <2>2. u = [s \in StreamIds |-> u[s]] BY <1>0
  <2>. QED BY <1>4, <1>5, <2>1, <2>2
<1>7. y \in Session /\ y.flow = g /\ y.writer = u /\ y.conn = x.conn BY <1>1, <1>6 DEF Session
<1>8. RecvSame(x, y) /\ Rest(x, y) BY <1>1 DEF Session, RecvSame, DataSame, AdmitSame, Rest
<1>9. OnlyWakes(x, y) BY <1>5, <1>7 DEF OnlyWakes
<1>10. ASSUME Sleepless(x) PROVE Sleepless(y)
  <2>. SUFFICES ASSUME NEW s \in StreamIds, ~u[s].woken
                PROVE  /\ u[s].at = "conn" => TryClaim(x.conn, 1) = 0
                       /\ u[s].at = "stream" => TryClaim(g[s], 1) = 0 BY <1>7 DEF Sleepless
  <2>1. ~x.writer[s].woken /\ u[s].at = x.writer[s].at BY <1>5
  <2>2. /\ x.writer[s].at = "conn" => TryClaim(x.conn, 1) = 0
        /\ x.writer[s].at = "stream" => TryClaim(x.flow[s], 1) = 0 BY <1>10, <2>1 DEF Sleepless
  <2>3. u[s].at = "stream" => g[s] = x.flow[s] BY <1>4, <1>5, <2>1
  <2>. QED BY <2>1, <2>2, <2>3
<1>11. SendInv(y, p) BY <1>7, <1>8, <1>9, <1>10, WakesStep
<1>. QED BY <1>7, <1>8, <1>11

Params(x) == [x EXCEPT !.params = TRUE]

\* TRANSPORT_PARAMETERS.
LEMMA ParamsStep ==
  ASSUME NEW x \in Session, NEW p \in Int, SendInv(x, p), plan.limit \in Int,
         NEW y, y = HandleTransportParameters(x)
  PROVE  y \in Session /\ RecvSame(x, y) /\ SendInv(y, p)
<1>1. CASE x.params
  <2>1. y = x BY <1>1 DEF HandleTransportParameters
  <2>. QED BY <2>1, WakesCompose
<1>2. CASE ~x.params
  <2>1. PICK a : a = Params(x) OBVIOUS
  <2>2. PICK b : b = IncreaseConn(a, ConnWindow) OBVIOUS
  <2>3. PICK c : c = IncreaseOpens(b, "bi", plan.limit) OBVIOUS
  <2>4. PICK d : d = IncreaseOpens(c, "uni", plan.limit) OBVIOUS
  <2>5. PICK R : R = {s \in x.streamFlow : x.flow[s].max < StreamWindow} OBVIOUS
  <2>6. y = Raised(d, R) BY <1>2, <2>1, <2>2, <2>3, <2>4, <2>5, Zenon DEF HandleTransportParameters, Raised, Params
  <2>7. R \in SUBSET StreamIds BY <2>5 DEF Session
  <2>8. a \in Session /\ SendSame(x, a) /\ RecvSame(x, a)
    <3>1. PICK t \in BOOLEAN : t = TRUE OBVIOUS
    <3>2. a = [x EXCEPT !.params = t] BY <2>1, <3>1 DEF Params
    <3>3. a \in Session BY <3>2 DEF Session
    <3>4. SendSame(x, a) BY <3>2 DEF Session, SendSame
    <3>5. RecvSame(x, a) BY <3>2 DEF Session, RecvSame, DataSame, AdmitSame
    <3>. QED BY <3>3, <3>4, <3>5
  <2>9. SendInv(a, p) BY <2>8, SendInvKept
  <2>10. ConnWindow \in Int BY JsAssumption
  <2>11. b \in Session /\ RecvSame(a, b) /\ SendInv(b, p) BY <2>2, <2>8, <2>9, <2>10, MaxDataStep
  <2>12. "bi" \in Dirs /\ "uni" \in Dirs BY DEF Dirs
  <2>13. c \in Session /\ RecvSame(b, c) /\ SendSame(b, c) BY <2>3, <2>11, <2>12, MaxStreamsStep
  <2>14. d \in Session /\ RecvSame(c, d) /\ SendSame(c, d) BY <2>4, <2>13, <2>12, MaxStreamsStep
  <2>15. SendInv(c, p) BY <2>11, <2>13, SendInvKept
  <2>16. SendInv(d, p) BY <2>14, <2>13, <2>15, SendInvKept
  <2>17. y \in Session /\ RecvSame(d, y) /\ SendInv(y, p) BY <2>6, <2>7, <2>14, <2>16, RaisedStep
  <2>18. RecvSame(x, b) BY <2>8, <2>11, WakesCompose
  <2>19. RecvSame(x, c) BY <2>13, <2>18, WakesCompose
  <2>20. RecvSame(x, d) BY <2>14, <2>19, WakesCompose
  <2>. QED BY <2>17, <2>20, WakesCompose
<1>. QED BY <1>1, <1>2

Stopping(x, s) == [x EXCEPT !.sendStreams = @ \ {s}, !.writer[s].errored = TRUE]

\* What STOP_SENDING runs, one call after the other.
LEMMA StopIs ==
  ASSUME NEW x, NEW f, f.id \in x.sendStreams
  PROVE  HandleStopSending(x, f) =
           LET v == DropStream(Stopping(x, f.id), f.id)
               z == IF v.writer[f.id].at = "idle" THEN FailWriter(v, f.id) ELSE v
           IN MaybeDeleteStreamFlow(
                SendPriorityFrame(z, [type |-> "reset", id |-> f.id, size |-> SendFinalSize(v, f.id)]), f.id)
BY DEF HandleStopSending, Stopping

\* STOP_SENDING.
LEMMA StopStep ==
  ASSUME NEW x \in Session, NEW p \in Int, SendInv(x, p), x.closed = "open" => p >= 0,
         NEW f, f.id \in StreamIds, NEW y, y = HandleStopSending(x, f)
  PROVE  y \in Session /\ RecvSame(x, y) /\ SendInv(y, p)
<1>0. PICK s \in StreamIds : s = f.id OBVIOUS
<1>1. CASE s \notin x.sendStreams
  <2>1. y = x BY <1>0, <1>1 DEF HandleStopSending
  <2>. QED BY <2>1, WakesCompose
<1>2. CASE s \in x.sendStreams
  <2>1. PICK a : a = Stopping(x, s) OBVIOUS
  <2>2. PICK b : b = DropStream(a, s) OBVIOUS
  <2>3. PICK c : c = IF b.writer[s].at = "idle" THEN FailWriter(b, s) ELSE b OBVIOUS
  <2>4. PICK g : g = [type |-> "reset", id |-> s, size |-> SendFinalSize(b, s)] OBVIOUS
  <2>5. PICK d : d = SendPriorityFrame(c, g) OBVIOUS
  <2>6. y = MaybeDeleteStreamFlow(d, s)
    <3>1. f.id \in x.sendStreams BY <1>0, <1>2
    <3>2. y = LET v == DropStream(Stopping(x, f.id), f.id)
                  z == IF v.writer[f.id].at = "idle" THEN FailWriter(v, f.id) ELSE v
              IN MaybeDeleteStreamFlow(
                   SendPriorityFrame(z, [type |-> "reset", id |-> f.id, size |-> SendFinalSize(v, f.id)]), f.id)
      BY <3>1, StopIs
    <3>6. b = DropStream(Stopping(x, f.id), f.id) BY <1>0, <2>1, <2>2, Zenon
    <3>3. c = IF b.writer[f.id].at = "idle" THEN FailWriter(b, f.id) ELSE b BY <1>0, <2>3, Zenon
    <3>4. d = SendPriorityFrame(c, [type |-> "reset", id |-> f.id, size |-> SendFinalSize(b, f.id)])
      BY <1>0, <2>4, <2>5, Zenon
    <3>5. y = MaybeDeleteStreamFlow(d, f.id) BY <3>2, <3>3, <3>4, <3>6, Zenon
    <3>. QED BY <1>0, <3>5, Zenon
  <2>7. a \in Session /\ RecvSame(x, a) /\ SendInv(a, p) /\ a.closed = x.closed
    <3>1. PICK t \in BOOLEAN : t = TRUE OBVIOUS
    <3>2. PICK S : S = x.sendStreams \ {s} OBVIOUS
    <3>3. S \in SUBSET StreamIds /\ x.writer[s] \in Writer BY <3>2 DEF Session
    <3>4. PICK w : w = [x.writer[s] EXCEPT !.errored = t] OBVIOUS
    <3>5. w \in Writer /\ w.at = x.writer[s].at /\ w.left = x.writer[s].left /\ w.held = x.writer[s].held
          /\ w.woken = x.writer[s].woken BY <3>3, <3>4 DEF Writer
    <3>6. PICK z : z = PutWriter(x, s, w) OBVIOUS
    <3>7. z \in Session /\ RecvSame(x, z) /\ Rest(x, z) /\ SendInv(z, p) BY <3>5, <3>6, FlagStep
    <3>8. a = [z EXCEPT !.sendStreams = S] BY <2>1, <3>1, <3>2, <3>4, <3>6 DEF Stopping, PutWriter, Session, Writer
    <3>9. a \in Session BY <3>3, <3>7, <3>8 DEF Session
    <3>10. SendSame(z, a) BY <3>7, <3>8 DEF Session, SendSame
    <3>11. RecvSame(z, a) BY <3>7, <3>8 DEF Session, RecvSame, DataSame, AdmitSame
    <3>12. SendInv(a, p) BY <3>7, <3>9, <3>10, SendInvKept
    <3>13. RecvSame(x, a) BY <3>7, <3>11, WakesCompose
    <3>14. a.closed = x.closed BY <3>13 DEF RecvSame, AdmitSame
    <3>. QED BY <3>9, <3>12, <3>13, <3>14
  <2>8. b \in Session /\ RecvSame(a, b) /\ b.closed = a.closed
        /\ (a.closed = "open" /\ SendInv(a, p) /\ p >= 0 => SendInv(b, p)) BY <2>2, <2>7, DropStreamDoes
  <2>9. SendInv(b, p)
    <3>1. CASE x.closed = "open" BY <2>7, <2>8, <3>1
    <3>2. CASE x.closed # "open" BY <2>7, <2>8, <3>2 DEF SendInv
    <3>. QED BY <3>1, <3>2
  <2>10. c \in Session /\ RecvSame(b, c) /\ SendInv(c, p)
    <3>1. CASE b.writer[s].at = "idle"
      <4>1. c = FailWriter(b, s) BY <2>3, <3>1
      <4>2. c \in Session /\ RecvSame(b, c) /\ Failed(b, c, s) BY <2>8, <4>1, FailWriterDoes
      <4>3. CASE b.closed = "open"
        <5>1. Framed(b) /\ Hands(b) BY <2>9, <4>3 DEF SendInv
        <5>2. NoFrame(b, s) BY <2>8, <3>1, <5>1, IdleHasNoFrame
        <5>3. SendInv(c, p + Claimed(b.writer[s])) BY <2>8, <2>9, <3>1, <4>2, <4>3, <5>2, FailedKeeps
        <5>4. Claimed(b.writer[s]) = 0 BY <3>1, <5>1 DEF Claimed, Hands
        <5>. QED BY <4>2, <5>3, <5>4
      <4>4. CASE b.closed # "open"
        <5>1. c.closed = b.closed BY <4>2 DEF RecvSame, AdmitSame
        <5>. QED BY <4>2, <4>4, <5>1 DEF SendInv
      <4>. QED BY <4>3, <4>4
    <3>2. CASE b.writer[s].at # "idle"
      <4>1. c = b BY <2>3, <3>2
      <4>. QED BY <2>8, <2>9, <4>1, WakesCompose
    <3>. QED BY <3>1, <3>2
  <2>11. g \in Frame
    <3>1. b.flow[s].sendOffset \in Int BY <2>8 DEF Session, Flow
    <3>2. SendFinalSize(b, s) \in Int BY <3>1 DEF SendFinalSize
    <3>. QED BY <2>4, <3>2 DEF Frame
  <2>12. d \in Session /\ SendSame(c, d) /\ RecvSame(c, d) BY <2>5, <2>10, <2>11, SendPriorityFrameDoes
  <2>13. SendInv(d, p) BY <2>10, <2>12, SendInvKept
  <2>14. SendInv(y, p) /\ y \in Session /\ RecvSame(d, y) BY <2>6, <2>12, <2>13, MaybeDeleteKeeps, MaybeDeleteDoes
  <2>15. RecvSame(x, b) BY <2>7, <2>8, WakesCompose
  <2>16. RecvSame(x, c) BY <2>10, <2>15, WakesCompose
  <2>17. RecvSame(x, d) BY <2>12, <2>16, WakesCompose
  <2>. QED BY <2>14, <2>17, WakesCompose
<1>. QED BY <1>1, <1>2

Dropping(f, x, q, n) == f = [i \in 0..n |-> IF i = 0 THEN x ELSE ErrorRecv(f[i - 1], q[i])]

\* The recursion of DropAll defines a function.
LEMMA DroppingExists ==
  ASSUME NEW x, NEW q, NEW n \in Nat
  PROVE  \E f : Dropping(f, x, q, n)
<1>1. PICK M : M = {m \in Nat : ~\E f : Dropping(f, x, q, m)} OBVIOUS
<1>2. SUFFICES ASSUME M # {} PROVE FALSE BY <1>1
<1>3. PICK m \in M : \A j \in M : m <= j BY <1>1, <1>2, LeastNat
<1>4. m \in Nat /\ ~\E f : Dropping(f, x, q, m) BY <1>1
<1>5. CASE m = 0
  <2>1. PICK g : g = [i \in 0..m |-> x] OBVIOUS
  <2>2. g = [i \in 0..m |-> IF i = 0 THEN x ELSE ErrorRecv(g[i - 1], q[i])] BY <1>5, <2>1
  <2>. QED BY <1>4, <2>2 DEF Dropping
<1>6. CASE m # 0
  <2>1. m - 1 \in Nat /\ m - 1 \notin M BY <1>3, <1>4, <1>6
  <2>2. PICK f : Dropping(f, x, q, m - 1) BY <1>1, <2>1
  <2>3. \A i \in 0..m - 1 : f[i] = IF i = 0 THEN x ELSE ErrorRecv(f[i - 1], q[i]) BY <2>2 DEF Dropping
  <2>4. PICK g : g = [i \in 0..m |-> IF i = m THEN ErrorRecv(f[m - 1], q[m]) ELSE f[i]] OBVIOUS
  <2>5. \A i \in 0..m : g[i] = IF i = 0 THEN x ELSE ErrorRecv(g[i - 1], q[i])
    <3>. TAKE i \in 0..m
    <3>1. CASE i = 0 BY <1>4, <1>6, <2>3, <2>4, <3>1
    <3>2. CASE i = m
      <4>1. g[i] = ErrorRecv(f[m - 1], q[m]) /\ g[i - 1] = f[m - 1] BY <1>4, <1>6, <2>4, <3>2
      <4>. QED BY <1>6, <3>2, <4>1
    <3>3. CASE i # 0 /\ i # m
      <4>1. i \in 0..m - 1 /\ i - 1 \in 0..m /\ i - 1 # m BY <1>4, <3>3
      <4>2. g[i] = f[i] /\ g[i - 1] = f[i - 1] BY <2>4, <3>3, <4>1
      <4>. QED BY <2>3, <3>3, <4>1, <4>2
    <3>. QED BY <3>1, <3>2, <3>3
  <2>6. g = [i \in 0..m |-> g[i]] BY <2>4
  <2>7. g = [i \in 0..m |-> IF i = 0 THEN x ELSE ErrorRecv(g[i - 1], q[i])] BY <2>5, <2>6
  <2>. QED BY <1>4, <2>7 DEF Dropping
<1>. QED BY <1>5, <1>6

\* DropAll is the last value of that function.
LEMMA DropAllIs ==
  ASSUME NEW x, NEW q, Len(q) \in Nat
  PROVE  \E f : Dropping(f, x, q, Len(q)) /\ DropAll(x, q) = f[Len(q)]
<1>1. \E f : Dropping(f, x, q, Len(q)) BY DroppingExists
<1>2. PICK f : f = CHOOSE g : Dropping(g, x, q, Len(q)) OBVIOUS
<1>3. Dropping(f, x, q, Len(q)) BY <1>1, <1>2
<1>4. f = CHOOSE g : g = [i \in 0..Len(q) |-> IF i = 0 THEN x ELSE ErrorRecv(g[i - 1], q[i])]
  BY <1>2, Zenon DEF Dropping
<1>5. DropAll(x, q) = f[Len(q)] BY <1>4, Zenon DEF DropAll
<1>. QED BY <1>3, <1>5

\* Every stream that waits is dropped.
LEMMA DropAllDoes ==
  ASSUME NEW x \in Session, DataInv(x), NEW q \in Seq(StreamIds), NEW y, y = DropAll(x, q)
  PROVE  y \in Session /\ SendSame(x, y) /\ AdmitSame(x, y) /\ DataInv(y)
<1>1. PICK n \in Nat : n = Len(q) OBVIOUS
<1>2. PICK f : Dropping(f, x, q, n) /\ y = f[n] BY <1>1, DropAllIs
<1>3. \A i \in 0..n : f[i] = IF i = 0 THEN x ELSE ErrorRecv(f[i - 1], q[i]) BY <1>2 DEF Dropping
<1>4. \A i \in 1..n : q[i] \in StreamIds BY <1>1
<1>. DEFINE Good(i) == f[i] \in Session /\ SendSame(x, f[i]) /\ AdmitSame(x, f[i]) /\ DataInv(f[i])
<1>5. PICK M : M = {i \in 0..n : ~Good(i)} OBVIOUS
<1>6. SUFFICES ASSUME M # {} PROVE FALSE BY <1>2, <1>5
<1>7. M \in SUBSET Nat BY <1>1, <1>5
<1>8. PICK m \in M : \A j \in M : m <= j BY <1>6, <1>7, LeastNat
<1>9. m \in 0..n /\ ~Good(m) BY <1>5
<1>10. CASE m = 0
  <2>1. f[0] = x BY <1>3, <1>9, <1>10
  <2>. QED BY <1>9, <1>10, <2>1, SameIsTransitive
<1>11. CASE m # 0
  <2>1. m - 1 \in 0..n /\ m - 1 \notin M /\ m \in 1..n BY <1>8, <1>9, <1>11
  <2>2. Good(m - 1) BY <1>5, <2>1
  <2>3. PICK a, b : a = f[m - 1] /\ b = f[m] OBVIOUS
  <2>4. PICK s \in StreamIds : s = q[m] BY <1>4, <2>1
  <2>5. b = ErrorRecv(a, s) BY <1>3, <1>9, <1>11, <2>3, <2>4
  <2>6. a \in Session /\ SendSame(x, a) /\ AdmitSame(x, a) /\ DataInv(a) BY <2>2, <2>3
  <2>7. b \in Session /\ SendSame(a, b) /\ AdmitSame(a, b) /\ DataInv(b) BY <2>5, <2>6, ErrorRecvDoes
  <2>8. SendSame(x, b) /\ AdmitSame(x, b) BY <2>6, <2>7, SameIsTransitive
  <2>. QED BY <1>9, <2>3, <2>7, <2>8
<1>. QED BY <1>10, <1>11

Torn(x, P, R, W, C, F) ==
  [x EXCEPT !.pending = P, !.recv = R, !.writer = W, !.conn = C, !.flow = F,
            !.sendStreams = {}, !.recvStreams = {}, !.streamFlow = {}, !.ready = <<>>]

\* The waiting streams are dropped, and what a teardown makes of each record then.
Marked(x, how) == [x EXCEPT !.closed = how]
Dropped(x, how) == DropAll(DropAll(Marked(x, how), x.pending["bi"]), x.pending["uni"])
Ended(r) == [r EXCEPT !.error = TRUE, !.queue = <<>>]
Over(x, s) ==
  LET w == x.writer[s] IN
  IF w.at = "none" THEN w
  ELSE IF x.inflight # <<>> /\ x.inflight[1].id = s THEN [w EXCEPT !.errored = TRUE]
  ELSE IF w.at = "closed" THEN w
  ELSE [w EXCEPT !.at = "failed", !.held = 0, !.woken = FALSE]
Shut(v) == [v EXCEPT !.shut = TRUE]
Back(x, s) == IF x.inflight # <<>> /\ x.inflight[1].id = s THEN 0 ELSE Claimed(x.writer[s])

\* #teardown with its parts named.
LEMMA TeardownIs ==
  ASSUME NEW x, NEW how
  PROVE  LET z == Dropped(x, how) IN Teardown(x, how) =
           Torn(z, [d \in Dirs |-> <<>>],
                [s \in StreamIds |-> IF s \in z.recvStreams THEN Ended(z.recv[s]) ELSE z.recv[s]],
                [s \in StreamIds |-> Over(z, s)],
                [z.conn EXCEPT !.used = @ - SumFunction([s \in StreamIds |-> Back(z, s)])],
                [s \in StreamIds |-> Shut(z.flow[s])])
BY DEF Teardown, Dropped, Marked, Torn, Ended, Over, Shut, Back

\* The parts have their types.
Parts(P, R, W, C, F) ==
  /\ P \in [Dirs -> Seq(StreamIds)] /\ R \in [StreamIds -> Recv]
  /\ W \in [StreamIds -> Writer] /\ C \in CreditRecord /\ F \in [StreamIds -> Flow]

\* What a torn-down session consists of.
LEMMA TornIs ==
  ASSUME NEW x \in Session, NEW P, NEW R, NEW W, NEW C, NEW F, Parts(P, R, W, C, F),
         NEW y, y = Torn(x, P, R, W, C, F)
  PROVE  /\ y \in Session /\ y.me = x.me /\ y.closed = x.closed /\ y.pending = P /\ y.recv = R
         /\ y.data = x.data /\ y.recvStreams = {} /\ y.quota = x.quota
<1>0. /\ P \in [Dirs -> Seq(StreamIds)] /\ R \in [StreamIds -> Recv]
      /\ W \in [StreamIds -> Writer] /\ C \in CreditRecord /\ F \in [StreamIds -> Flow] BY DEF Parts
<1>1. PICK a, b : a = {} /\ b = <<>> OBVIOUS
<1>2. a \in SUBSET StreamIds /\ b \in Seq(StreamFrame) BY <1>1
<1>4. PICK v : v = [x EXCEPT !.pending = P, !.recv = R, !.writer = W, !.conn = C, !.flow = F] OBVIOUS
<1>5. y = [v EXCEPT !.sendStreams = a, !.recvStreams = a, !.streamFlow = a, !.ready = b] BY <1>1, <1>4 DEF Torn, Session
<1>7. v \in Session /\ v.me = x.me /\ v.closed = x.closed /\ v.pending = P /\ v.recv = R /\ v.data = x.data
      /\ v.quota = x.quota BY <1>0, <1>4 DEF Session
<1>8. y \in Session /\ y.me = v.me /\ y.closed = v.closed /\ y.pending = v.pending /\ y.recv = v.recv /\ y.data = v.data
      /\ y.quota = v.quota /\ y.recvStreams = a BY <1>2, <1>5, <1>7, ZenonT(60) DEF Session
<1>. QED BY <1>1, <1>7, <1>8

\* What the invariants say of one end: p is hist.paid, h is hist.handed, l the limit.
EndInv(x, p, h, l) ==
  /\ x.closed = "open" => p >= 0
  /\ SendInv(x, p) /\ DataInv(x) /\ AdmitInv(x, h, l)

\* A step that the receiving half does not see keeps the invariant of the end if it
\* keeps the sending half in order.
LEMMA EndInvKept ==
  ASSUME NEW x \in Session, NEW y \in Session, NEW p, NEW q, NEW h, NEW l, EndInv(x, p, h, l), RecvSame(x, y),
         SendInv(y, q), x.closed = "open" => q >= 0
  PROVE  y.me = x.me /\ EndInv(y, q, h, l)
<1>1. /\ DataInv(x) => DataInv(y)
      /\ AdmitInv(x, h, l) => AdmitInv(y, h, l)
      /\ y.me = x.me /\ y.closed = x.closed BY RecvSameKeeps
<1>. QED BY <1>1 DEF EndInv

\* Emptying queues makes no bytes.
LEMMA EndedQueues ==
  ASSUME NEW x \in Session, NEW y \in Session, NEW T \in SUBSET StreamIds,
         \A s \in StreamIds : y.recv[s].queue = IF s \in T THEN <<>> ELSE x.recv[s].queue
  PROVE  InQueues(y) <= InQueues(x)
<1>1. PICK g, h : g = [s \in StreamIds |-> Buffered(x.recv[s])] /\ h = [s \in StreamIds |-> Buffered(y.recv[s])] OBVIOUS
<1>2. DOMAIN g = StreamIds /\ DOMAIN h = StreamIds /\ IsFiniteSet(StreamIds) /\ IsFiniteSet(T)
      /\ (\A s \in StreamIds : g[s] \in Int /\ g[s] \in Nat /\ h[s] \in Int)
  BY <1>1, InQueuesType, JsAssumption, FS_Subset
<1>3. \A s \in StreamIds : h[s] = IF s \in T THEN 0 ELSE g[s]
  <2>. TAKE s \in StreamIds
  <2>1. CASE s \in T
    <3>1. h[s] = SumFunction(y.recv[s].queue) /\ y.recv[s].queue = <<>> BY <1>1, <2>1 DEF Buffered
    <3>2. <<>> \in Seq(Int) OBVIOUS
    <3>. QED BY <2>1, <3>1, <3>2, SumType
  <2>2. CASE s \notin T
    <3>1. y.recv[s].queue = x.recv[s].queue BY <2>2
    <3>. QED BY <1>1, <2>2, <3>1 DEF Buffered
  <2>. QED BY <2>1, <2>2
<1>5. SumFunctionOnSet(g, StreamIds) = SumFunctionOnSet(h, StreamIds) + SumFunctionOnSet(g, T) BY <1>2, <1>3, TotalSplit
<1>6. SumFunction(g) = SumFunctionOnSet(g, StreamIds) /\ SumFunction(h) = SumFunctionOnSet(h, StreamIds)
  BY <1>2, SumIsTotal
<1>7. SumFunctionOnSet(g, T) \in Nat BY <1>2, TotalType
<1>8. InQueues(x) = SumFunction(g) /\ InQueues(y) = SumFunction(h) BY <1>1 DEF InQueues
<1>. QED BY <1>5, <1>6, <1>7, <1>8, InQueuesType

\* A receive side that ended has an empty queue.
LEMMA EndedDoes ==
  ASSUME NEW r \in Recv
  PROVE  Ended(r) \in Recv /\ Ended(r).queue = <<>>
<1>1. PICK t \in BOOLEAN : t = TRUE OBVIOUS
<1>2. PICK q : q = <<>> OBVIOUS
<1>5. q \in Seq(Nat) BY <1>2
<1>3. Ended(r) = [r EXCEPT !.error = t, !.queue = q] BY <1>1, <1>2 DEF Ended
<1>4. Ended(r) \in Recv /\ Ended(r).queue = q BY <1>3, <1>5 DEF Recv
<1>. QED BY <1>2, <1>4

\* The teardown leaves a writer a writer.
LEMMA OverDoes ==
  ASSUME NEW x \in Session, NEW s \in StreamIds
  PROVE  Over(x, s) \in Writer
<1>1. PICK w \in Writer : w = x.writer[s] BY DEF Session
<1>2. PICK t \in BOOLEAN : t = TRUE OBVIOUS
<1>3. PICK f \in BOOLEAN : f = FALSE OBVIOUS
<1>4. PICK k \in Phases : k = "failed" BY DEF Phases
<1>5. PICK z \in Int : z = 0 OBVIOUS
<1>6. [w EXCEPT !.errored = t] \in Writer BY DEF Writer
<1>7. [w EXCEPT !.at = k, !.held = z, !.woken = f] \in Writer BY DEF Writer
<1>8. Over(x, s) = w \/ Over(x, s) = [w EXCEPT !.errored = t] \/ Over(x, s) = [w EXCEPT !.at = k, !.held = z, !.woken = f]
  BY <1>1, <1>2, <1>3, <1>4, <1>5, Zenon DEF Over
<1>. QED BY <1>6, <1>7, <1>8

\* The credit that a teardown returns is an integer.
LEMMA BackType ==
  ASSUME NEW x \in Session
  PROVE  SumFunction([s \in StreamIds |-> Back(x, s)]) \in Int
<1>1. PICK g : g = [s \in StreamIds |-> Back(x, s)] OBVIOUS
<1>2. \A s \in StreamIds : Back(x, s) \in Int
  <2>. TAKE s \in StreamIds
  <2>1. x.writer[s].held \in Int BY DEF Session, Writer
  <2>. QED BY <2>1 DEF Back, Claimed
<1>3. DOMAIN g = StreamIds /\ IsFiniteSet(StreamIds) /\ \A s \in StreamIds : g[s] \in Int BY <1>1, <1>2, JsAssumption
<1>4. SumFunction(g) \in Int BY <1>3, SumIsTotal, TotalType
<1>. QED BY <1>1, <1>4

\* The waiting streams are dropped in a session marked closed.
LEMMA DroppedDoes ==
  ASSUME NEW x \in Session, Missing(x) >= 0, Windowed(x),
         NEW how \in {"fulfilled", "rejected"}, NEW z, z = Dropped(x, how)
  PROVE  /\ z \in Session /\ z.me = x.me /\ z.closed = how /\ z.quota = x.quota /\ DataInv(z)
<1>1. PICK a : a = Marked(x, how) OBVIOUS
<1>2. a = [x EXCEPT !.closed = how] BY <1>1 DEF Marked
<1>3. a \in Session /\ a.me = x.me /\ a.closed = how /\ a.quota = x.quota /\ a.data = x.data /\ a.recv = x.recv
  BY <1>2, ZenonT(60) DEF Session
<1>4. DataInv(a)
  <2>1. InQueues(a) = InQueues(x) BY <1>3 DEF InQueues
  <2>. QED BY <1>3, <2>1 DEF DataInv, Missing, Windowed
<1>5. PICK q \in Seq(StreamIds), r \in Seq(StreamIds) : q = x.pending["bi"] /\ r = x.pending["uni"] BY DEF Session, Dirs
<1>6. PICK b : b = DropAll(a, q) OBVIOUS
<1>7. b \in Session /\ AdmitSame(a, b) /\ DataInv(b) BY <1>3, <1>4, <1>6, DropAllDoes
<1>8. z = DropAll(b, r) BY <1>1, <1>5, <1>6 DEF Dropped
<1>9. z \in Session /\ AdmitSame(b, z) /\ DataInv(z) BY <1>7, <1>8, DropAllDoes
<1>. QED BY <1>3, <1>7, <1>9 DEF AdmitSame

\* Of an end that is torn down only what it handed out and that no byte was
\* counted twice is claimed.
LEMMA TeardownStep ==
  ASSUME NEW x \in Session, NEW p, NEW h, NEW l, Missing(x) >= 0, Windowed(x), AdmitInv(x, h, l),
         NEW how \in {"fulfilled", "rejected"}, NEW y, y = Teardown(x, how)
  PROVE  y \in Session /\ y.me = x.me /\ EndInv(y, p, h, l)
<1>0. PICK z : z = Dropped(x, how) OBVIOUS
<1>a. z \in Session /\ z.me = x.me /\ z.closed = how /\ z.quota = x.quota /\ DataInv(z) BY <1>0, DroppedDoes
<1>1. PICK P, W : P = [d \in Dirs |-> <<>>] /\ W = [s \in StreamIds |-> Over(z, s)] OBVIOUS
<1>2. PICK R : R = [s \in StreamIds |-> IF s \in z.recvStreams THEN Ended(z.recv[s]) ELSE z.recv[s]] OBVIOUS
<1>5. PICK k : k = SumFunction([s \in StreamIds |-> Back(z, s)]) OBVIOUS
<1>6. PICK C : C = [z.conn EXCEPT !.used = @ - k] OBVIOUS
<1>7. PICK F : F = [s \in StreamIds |-> Shut(z.flow[s])] OBVIOUS
<1>8. y = Torn(z, P, R, W, C, F) BY <1>0, <1>1, <1>2, <1>5, <1>6, <1>7, TeardownIs, Zenon
<1>9. P \in [Dirs -> Seq(StreamIds)] BY <1>1
<1>10. W \in [StreamIds -> Writer] BY <1>1, <1>a, OverDoes
<1>11. \A s \in StreamIds : R[s] \in Recv /\ R[s].queue = IF s \in z.recvStreams THEN <<>> ELSE z.recv[s].queue
  <2>. TAKE s \in StreamIds
  <2>1. z.recv[s] \in Recv BY <1>a DEF Session
  <2>2. Ended(z.recv[s]) \in Recv /\ Ended(z.recv[s]).queue = <<>> BY <2>1, EndedDoes
  <2>3. R[s] = IF s \in z.recvStreams THEN Ended(z.recv[s]) ELSE z.recv[s] BY <1>2
  <2>. QED BY <2>1, <2>2, <2>3
<1>12. R \in [StreamIds -> Recv]
  <2>1. R = [s \in StreamIds |-> R[s]] BY <1>2
  <2>. QED BY <1>11, <2>1
<1>16. C \in CreditRecord
  <2>1. z.conn \in CreditRecord BY <1>a DEF Session
  <2>2. k \in Int BY <1>5, <1>a, BackType
  <2>. QED BY <1>6, <2>1, <2>2 DEF CreditRecord
<1>17. F \in [StreamIds -> Flow]
  <2>1. \A s \in StreamIds : Shut(z.flow[s]) \in Flow
    <3>. TAKE s \in StreamIds
    <3>1. PICK v \in Flow : v = z.flow[s] BY <1>a DEF Session
    <3>2. PICK t \in BOOLEAN : t = TRUE OBVIOUS
    <3>3. Shut(v) = [v EXCEPT !.shut = t] BY <3>2 DEF Shut
    <3>4. Shut(v) \in Flow BY <3>3 DEF Flow
    <3>. QED BY <3>1, <3>4
  <2>. QED BY <1>7, <2>1
<1>18. /\ y \in Session /\ y.me = x.me /\ y.closed = how /\ y.pending = P /\ y.recv = R /\ y.data = z.data
       /\ y.recvStreams = {} /\ y.quota = x.quota
  <2>1. Parts(P, R, W, C, F) BY <1>9, <1>10, <1>12, <1>16, <1>17 DEF Parts
  <2>. QED BY <1>8, <1>a, <2>1, TornIs
<1>19. y.closed # "open" BY <1>18
<1>20. DataInv(y)
  <2>1. z.recvStreams \in SUBSET StreamIds BY <1>a DEF Session
  <2>2. InQueues(y) <= InQueues(z) BY <1>11, <1>18, <1>a, <2>1, EndedQueues
  <2>3. Missing(z) >= 0 /\ Windowed(z) BY <1>a DEF DataInv
  <2>4. Missing(y) >= 0
    <3>1. Missing(y) = y.data.offset - (y.data.consumed + InQueues(y)) /\ Missing(z) = z.data.offset - (z.data.consumed + InQueues(z))
      BY DEF Missing
    <3>. QED BY <1>18, <1>a, <2>2, <2>3, <3>1, MissingType
  <2>. QED BY <1>18, <1>19, <2>3, <2>4 DEF DataInv, Windowed
<1>21. AdmitInv(y, h, l) BY <1>1, <1>18, <1>19 DEF AdmitInv
<1>22. SendInv(y, p) BY <1>19 DEF SendInv
<1>. QED BY <1>18, <1>19, <1>20, <1>21, <1>22 DEF EndInv

\* #close, #abort and what the transport reports.
LEMMA EndStep ==
  ASSUME NEW x \in Session, NEW p, NEW h, NEW l, EndInv(x, p, h, l),
         NEW how \in {"fulfilled", "rejected"}, NEW y, y = EndSession(x, how)
  PROVE  y \in Session /\ y.me = x.me /\ EndInv(y, p, h, l)
BY TeardownStep DEF EndSession, EndInv, DataInv

\* A control frame is queued.
LEMMA ToldStep ==
  ASSUME NEW x \in Session, NEW p, NEW h, NEW l, EndInv(x, p, h, l), NEW f \in Frame,
         NEW y, y = SendPriorityFrame(x, f)
  PROVE  y \in Session /\ y.me = x.me /\ EndInv(y, p, h, l)
<1>1. y \in Session /\ SendSame(x, y) /\ RecvSame(x, y) BY SendPriorityFrameDoes
<1>2. SendInv(x, p) /\ (x.closed = "open" => p >= 0) BY DEF EndInv
<1>3. SendInv(y, p) BY <1>1, <1>2, SendInvKept
<1>. QED BY <1>1, <1>2, <1>3, EndInvKept

\* A frame nobody may send ends the session.
LEMMA AccuseStep ==
  ASSUME NEW x \in Session, NEW p, NEW h, NEW l, EndInv(x, p, h, l), NEW y, y = Accuse(x)
  PROVE  y \in Session /\ y.me = x.me /\ EndInv(y, p, h, l)
<1>1. PICK f : f = [type |-> "connection_close"] OBVIOUS
<1>2. f \in Frame BY <1>1 DEF Frame
<1>3. PICK z : z = SendPriorityFrame(x, f) OBVIOUS
<1>4. z \in Session /\ z.me = x.me /\ EndInv(z, p, h, l) BY <1>2, <1>3, ToldStep
<1>5. y = EndSession(z, "rejected") BY <1>1, <1>3 DEF Accuse
<1>. QED BY <1>4, <1>5, EndStep

\* Bytes are charged to the connection.
LEMMA ChargeConnDoes ==
  ASSUME NEW x \in Session, NEW n \in Int, NEW y, y = ChargeConn(x, n)
  PROVE  /\ y \in Session /\ SendSame(x, y) /\ AdmitSame(x, y) /\ y.recv = x.recv
         /\ y.data.offset = x.data.offset + n /\ y.data.consumed = x.data.consumed /\ y.data.max = x.data.max
<1>1. x.data \in Data BY DEF Session
<1>2. PICK D : D = [x.data EXCEPT !.offset = @ + n] OBVIOUS
<1>3. D \in Data /\ D.offset = x.data.offset + n /\ D.consumed = x.data.consumed /\ D.max = x.data.max
  BY <1>1, <1>2 DEF Data
<1>4. y = [x EXCEPT !.data = D] BY <1>2 DEF ChargeConn
<1>5. y \in Session /\ y.data = D /\ y.recv = x.recv BY <1>3, <1>4 DEF Session
<1>6. SendSame(x, y) BY <1>4 DEF Session, SendSame
<1>7. AdmitSame(x, y) BY <1>4 DEF Session, AdmitSame
<1>. QED BY <1>3, <1>5, <1>6, <1>7

\* So does one that overruns its stream, after the connection was charged for it.
LEMMA OverrunStep ==
  ASSUME NEW x \in Session, NEW p, NEW h, NEW l, EndInv(x, p, h, l), x.closed = "open", NEW n \in Nat,
         NEW y, y = Accuse(ChargeConn(x, n))
  PROVE  y \in Session /\ y.me = x.me /\ EndInv(y, p, h, l)
<1>1. PICK f : f = [type |-> "connection_close"] OBVIOUS
<1>2. f \in Frame BY <1>1 DEF Frame
<1>3. PICK a, z : a = ChargeConn(x, n) /\ z = SendPriorityFrame(a, f) OBVIOUS
<1>4. /\ a \in Session /\ SendSame(x, a) /\ AdmitSame(x, a) /\ a.recv = x.recv
      /\ a.data.offset = x.data.offset + n /\ a.data.consumed = x.data.consumed /\ a.data.max = x.data.max
  BY <1>3, ChargeConnDoes
<1>5. Missing(a) >= 0 /\ Windowed(a)
  <2>1. InQueues(a) = InQueues(x) BY <1>4 DEF InQueues
  <2>2. Missing(x) >= 0 /\ Windowed(x) BY DEF EndInv, DataInv
  <2>3. Missing(a) = Missing(x) + n BY <1>4, <2>1, MissingType DEF Missing
  <2>. QED BY <1>4, <2>2, <2>3, MissingType DEF Windowed
<1>6. z \in Session /\ RecvSame(a, z) BY <1>2, <1>3, <1>4, SendPriorityFrameDoes
<1>7. AdmitInv(z, h, l) /\ z.closed = "open" /\ z.me = x.me
  <2>1. AdmitSame(x, z) BY <1>4, <1>6, SameIsTransitive DEF RecvSame
  <2>. QED BY <1>6, <2>1, AdmitInvKept DEF EndInv, AdmitSame
<1>8. Missing(z) >= 0 /\ Windowed(z)
  <2>1. InQueues(z) = InQueues(a) BY <1>6 DEF InQueues, RecvSame, DataSame, Buffered
  <2>. QED BY <1>5, <1>6, <2>1 DEF RecvSame, DataSame, Missing, Windowed
<1>9. y = Teardown(z, "rejected") BY <1>1, <1>3, <1>7 DEF Accuse, EndSession
<1>. QED BY <1>6, <1>7, <1>8, <1>9, TeardownStep

\* close().
LEMMA CloseStep ==
  ASSUME NEW x \in Session, NEW p, NEW h, NEW l, EndInv(x, p, h, l), NEW y, y = Close(x)
  PROVE  y \in Session /\ y.me = x.me /\ EndInv(y, p, h, l)
<1>1. PICK f : f = [type |-> "app_close"] OBVIOUS
<1>2. f \in Frame BY <1>1 DEF Frame
<1>3. PICK z : z = SendPriorityFrame(x, f) OBVIOUS
<1>4. z \in Session /\ z.me = x.me /\ EndInv(z, p, h, l) BY <1>2, <1>3, ToldStep
<1>5. y = EndSession(z, "fulfilled") BY <1>1, <1>3 DEF Close
<1>. QED BY <1>4, <1>5, EndStep

\* A stream gets a writer, or only a record.
LEMMA OpenedKeeps ==
  ASSUME NEW x \in Session, NEW y \in Session, NEW s \in StreamIds, NEW p \in Int, x.closed = "open", SendInv(x, p),
         x.writer[s].at = "none", y.me = x.me, y.conn = x.conn, y.ready = x.ready, y.inflight = x.inflight,
         \A t \in StreamIds : t # s => y.writer[t] = x.writer[t] /\ y.flow[t] = x.flow[t],
         y.writer[s].at \in {"none", "idle"}, y.writer[s].held = x.writer[s].held,
         x.recorded \subseteq y.recorded, \A d \in Dirs : x.next[d] <= y.next[d],
         s.by = x.me => s.index < y.next[s.dir], s.by # x.me => s \in y.recorded
  PROVE  SendInv(y, p)
<1>1. Named(x) /\ Framed(x) /\ Hands(x) /\ Sleepless(x) /\ Conserved(x, p) BY DEF SendInv
<1>2. NoFrame(x, s) BY <1>1, IdleHasNoFrame
<1>3. Framed(y) BY <1>1, <1>2, FramedSame
<1>4. Named(y)
  <2>. SUFFICES ASSUME NEW t \in StreamIds, y.writer[t].at # "none"
                PROVE  IF t.by = x.me THEN t.index < y.next[t.dir] ELSE t \in y.recorded BY DEF Named
  <2>1. CASE t = s BY <2>1
  <2>2. CASE t # s
    <3>1. IF t.by = x.me THEN t.index < x.next[t.dir] ELSE t \in x.recorded BY <1>1, <2>2 DEF Named
    <3>2. t.index \in Int /\ t.dir \in Dirs BY JsAssumption
    <3>3. x.next[t.dir] \in Int /\ y.next[t.dir] \in Int /\ x.next[t.dir] <= y.next[t.dir] BY <3>2 DEF Session
    <3>. QED BY <3>1, <3>2, <3>3
  <2>. QED BY <2>1, <2>2
<1>5. x.writer[s].held = 0 BY <1>1 DEF Hands
<1>6. Hands(y) BY <1>1, <1>5 DEF Hands
<1>7. Sleepless(y) BY <1>1 DEF Sleepless
<1>8. Conserved(y, p)
  <2>1. Claimed(y.writer[s]) = 0 /\ Claimed(x.writer[s]) = 0 BY <1>5 DEF Claimed
  <2>2. InHands(x) \in Int /\ InHands(y) = InHands(x) + (Claimed(y.writer[s]) - Claimed(x.writer[s])) BY InHandsMoves
  <2>3. InHands(y) = InHands(x) BY <2>1, <2>2
  <2>. QED BY <1>1, <2>3 DEF Conserved, InHands
<1>. QED BY <1>3, <1>4, <1>6, <1>7, <1>8 DEF SendInv

\* A stream of the peer is recorded; it waits for the acceptor or not.
LEMMA EntersKeeps ==
  ASSUME NEW x \in Session, NEW y \in Session, NEW h, NEW l, NEW s \in StreamIds, x.closed = "open", AdmitInv(x, h, l),
         y.me = x.me, y.closed = x.closed, s.by # x.me, s \notin x.recorded, s.index < x.quota[s.dir].max,
         y.recorded = x.recorded \cup {s}, y.recvStreams = x.recvStreams \cup {s}, y.recv = x.recv,
         \A d \in Dirs : y.quota[d].max = x.quota[d].max /\ y.quota[d].released = x.quota[d].released,
         \A d \in Dirs : \/ y.pending[d] = x.pending[d]
                         \/ d = s.dir /\ y.pending[d] = Append(x.pending[d], s)
  PROVE  AdmitInv(y, h, l)
<1>1. Seen(x) /\ Waiting(x, h) /\ Slots(x, l) BY DEF AdmitInv
<1>2. s \notin x.recvStreams /\ ~x.recv[s].accepted /\ ~x.recv[s].terminal /\ ~x.recv[s].replenished BY <1>1 DEF Seen
<1>3. Seen(y)
  <2>1. \A t \in y.recorded : t.by # y.me /\ t.index < y.quota[t.dir].max
    <3>. SUFFICES ASSUME NEW t \in y.recorded PROVE t.by # x.me /\ t.index < y.quota[t.dir].max OBVIOUS
    <3>1. t \in StreamIds /\ t.dir \in Dirs BY JsAssumption DEF Session
    <3>2. y.quota[t.dir].max = x.quota[t.dir].max BY <3>1
    <3>. QED BY <1>1, <3>2 DEF Seen
  <2>. QED BY <1>1, <1>2, <2>1 DEF Seen
<1>4. Waiting(y, h)
  <2>. SUFFICES ASSUME NEW d \in Dirs
                PROVE  /\ \A i, j \in DOMAIN y.pending[d] : y.pending[d][i] = y.pending[d][j] => i = j
                       /\ \A i \in DOMAIN y.pending[d] : LET t == y.pending[d][i] IN
                            /\ t \in y.recorded /\ t.dir = d /\ ~y.recv[t].accepted
                            /\ t \in y.recvStreams \/ y.recv[t].terminal
                            /\ \A j \in DOMAIN h : h[j] # t BY DEF Waiting
  <2>1. /\ \A i, j \in DOMAIN x.pending[d] : x.pending[d][i] = x.pending[d][j] => i = j
        /\ \A i \in DOMAIN x.pending[d] : LET t == x.pending[d][i] IN
             /\ t \in x.recorded /\ t.dir = d /\ ~x.recv[t].accepted
             /\ t \in x.recvStreams \/ x.recv[t].terminal
             /\ \A j \in DOMAIN h : h[j] # t BY <1>1 DEF Waiting
  <2>2. CASE y.pending[d] = x.pending[d] BY <2>1, <2>2
  <2>3. CASE d = s.dir /\ y.pending[d] = Append(x.pending[d], s)
    <3>1. x.pending[d] \in Seq(StreamIds) BY DEF Session
    <3>2. PICK q \in Seq(StreamIds) : q = x.pending[d] BY <3>1
    <3>3. PICK n \in Nat : n = Len(q) OBVIOUS
    <3>4. PICK r : r = y.pending[d] OBVIOUS
    <3>5. r = Append(q, s) BY <2>3, <3>2, <3>4
    <3>6. DOMAIN q = 1..n /\ DOMAIN r = 1..n+1 /\ r[n+1] = s /\ \A i \in 1..n : r[i] = q[i] BY <3>3, <3>5
    <3>7. \A j \in DOMAIN h : h[j] # s BY DEF AdmitInv
    <3>8. \A i \in 1..n : q[i] # s BY <2>1, <3>2, <3>6
    <3>9. \A i, j \in DOMAIN r : r[i] = r[j] => i = j BY <2>1, <3>2, <3>6, <3>8
    <3>10. \A i \in 1..n : LET t == r[i] IN
             /\ t \in y.recorded /\ t.dir = d /\ ~y.recv[t].accepted
             /\ t \in y.recvStreams \/ y.recv[t].terminal
             /\ \A j \in DOMAIN h : h[j] # t BY <2>1, <3>2, <3>6
    <3>11. \A i \in DOMAIN r : LET t == r[i] IN
             /\ t \in y.recorded /\ t.dir = d /\ ~y.recv[t].accepted
             /\ t \in y.recvStreams \/ y.recv[t].terminal
             /\ \A j \in DOMAIN h : h[j] # t BY <1>2, <2>3, <3>6, <3>7, <3>10
    <3>. QED BY <3>4, <3>9, <3>11
  <2>. QED BY <2>2, <2>3
<1>5. Slots(y, l)
  <2>1. \A d \in Dirs : Freed(y, d) = Freed(x, d)
    <3>. TAKE d \in Dirs
    <3>1. s \notin Freed(y, d) /\ s \notin Freed(x, d) BY <1>2 DEF Freed
    <3>2. \A t : t # s => (t \in Freed(y, d) <=> t \in Freed(x, d)) BY DEF Freed
    <3>3. \A t : t \in Freed(y, d) <=> t \in Freed(x, d) BY <3>1, <3>2
    <3>. QED BY <3>3
  <2>. QED BY <1>1, <2>1 DEF Slots
<1>. QED BY <1>3, <1>4, <1>5 DEF AdmitInv

Opening(x, s) ==
  [x EXCEPT
     !.quota[s.dir].used = AtLeast(@, s.index + 1),
     !.recorded = @ \cup {s}, !.streamFlow = @ \cup {s}, !.recvStreams = @ \cup {s},
     !.flow[s] = [NoFlow EXCEPT !.recvMax = StreamWindow,
                                !.max = IF s.dir = "bi" /\ x.params THEN StreamWindow ELSE 0],
     !.sendStreams = IF s.dir = "bi" THEN @ \cup {s} ELSE @,
     !.writer[s].at = IF s.dir = "bi" THEN "idle" ELSE @]

\* A stream of the peer is recorded, then refused or queued for the acceptor.
LEMMA IncomingIs ==
  ASSUME NEW x, NEW s
  PROVE  CreateIncoming(x, s) = IF s.dir \in x.cancelled THEN ErrorRecv(Opening(x, s), s)
                                ELSE [Opening(x, s) EXCEPT !.pending[s.dir] = Append(@, s)]
BY Zenon DEF CreateIncoming, Opening

OpenedAs(x, s, Q, v, w, S) ==
  [x EXCEPT !.quota = Q, !.recorded = x.recorded \cup {s}, !.streamFlow = x.streamFlow \cup {s},
            !.recvStreams = x.recvStreams \cup {s}, !.flow[s] = v, !.sendStreams = S, !.writer[s] = w]

\* What opening changes, one field after the other.
LEMMA OpeningIs ==
  ASSUME NEW x \in Session, NEW s \in StreamIds, NEW y, y = Opening(x, s)
  PROVE  \E Q \in [Dirs -> Quota], v \in Flow, w \in Writer, S \in SUBSET StreamIds :
           /\ \A d \in Dirs : Q[d].max = x.quota[d].max /\ Q[d].released = x.quota[d].released
           /\ w.at = (IF s.dir = "bi" THEN "idle" ELSE x.writer[s].at) /\ w.held = x.writer[s].held
           /\ y = OpenedAs(x, s, Q, v, w, S)
<1>1. s.dir \in Dirs /\ s.index \in Nat BY JsAssumption
<1>2. x.quota \in [Dirs -> Quota] /\ x.quota[s.dir] \in Quota /\ x.quota[s.dir].used \in Int BY <1>1 DEF Session, Quota
<1>3. PICK n : n = AtLeast(x.quota[s.dir].used, s.index + 1) OBVIOUS
<1>4. n \in Int BY <1>1, <1>2, <1>3 DEF AtLeast
<1>5. PICK q : q = [x.quota[s.dir] EXCEPT !.used = n] OBVIOUS
<1>6. q \in Quota /\ q.max = x.quota[s.dir].max /\ q.released = x.quota[s.dir].released BY <1>2, <1>4, <1>5 DEF Quota
<1>7. PICK Q : Q = [x.quota EXCEPT ![s.dir] = q] OBVIOUS
<1>8. Q \in [Dirs -> Quota] /\ \A d \in Dirs : Q[d].max = x.quota[d].max /\ Q[d].released = x.quota[d].released
  BY <1>1, <1>2, <1>6, <1>7
<1>9. PICK m : m = IF s.dir = "bi" /\ x.params THEN StreamWindow ELSE 0 OBVIOUS
<1>10. m \in Int /\ StreamWindow \in Int BY <1>9, JsAssumption
<1>11. PICK v : v = [NoFlow EXCEPT !.recvMax = StreamWindow, !.max = m] OBVIOUS
<1>12. v \in Flow
  <2>1. PICK f \in BOOLEAN : f = FALSE OBVIOUS
  <2>2. PICK z \in Int : z = 0 OBVIOUS
  <2>3. NoFlow = [max |-> z, used |-> z, shut |-> f, sendOffset |-> z, recvMax |-> z, recvOffset |-> z, recvConsumed |-> z]
    BY <2>1, <2>2 DEF NoFlow
  <2>4. NoFlow \in Flow BY <2>3 DEF Flow
  <2>. QED BY <1>10, <1>11, <2>4 DEF Flow
<1>13. PICK S : S = IF s.dir = "bi" THEN x.sendStreams \cup {s} ELSE x.sendStreams OBVIOUS
<1>14. S \in SUBSET StreamIds BY <1>13 DEF Session
<1>15. PICK k : k = IF s.dir = "bi" THEN "idle" ELSE x.writer[s].at OBVIOUS
<1>16. x.writer[s] \in Writer /\ x.writer[s].at \in Phases BY DEF Session, Writer
<1>17. k \in Phases BY <1>15, <1>16 DEF Phases
<1>18. PICK w : w = [x.writer[s] EXCEPT !.at = k] OBVIOUS
<1>19. w \in Writer /\ w.at = k /\ w.held = x.writer[s].held BY <1>16, <1>17, <1>18 DEF Writer
<1>20. y = [x EXCEPT !.quota = Q, !.recorded = x.recorded \cup {s}, !.streamFlow = x.streamFlow \cup {s},
                     !.recvStreams = x.recvStreams \cup {s}, !.flow[s] = v, !.sendStreams = S, !.writer[s] = w]
  BY <1>3, <1>5, <1>7, <1>9, <1>11, <1>13, <1>15, <1>18 DEF Opening, Session
<1>21. y = OpenedAs(x, s, Q, v, w, S) BY <1>20 DEF OpenedAs
<1>22. w.at = (IF s.dir = "bi" THEN "idle" ELSE x.writer[s].at) BY <1>15, <1>19
<1>. QED BY <1>8, <1>12, <1>14, <1>19, <1>21, <1>22

\* What recording a stream of the peer changes.
LEMMA OpenedAsDoes ==
  ASSUME NEW x \in Session, NEW s \in StreamIds, NEW Q \in [Dirs -> Quota], NEW v \in Flow, NEW w \in Writer,
         NEW S \in SUBSET StreamIds, NEW y, y = OpenedAs(x, s, Q, v, w, S)
  PROVE  /\ y \in Session /\ y.me = x.me /\ y.closed = x.closed /\ y.conn = x.conn /\ y.ready = x.ready
         /\ y.inflight = x.inflight /\ y.next = x.next /\ y.quota = Q /\ y.recv = x.recv /\ y.data = x.data
         /\ y.pending = x.pending /\ y.recorded = x.recorded \cup {s} /\ y.recvStreams = x.recvStreams \cup {s}
         /\ y.writer[s] = w /\ \A t \in StreamIds : t # s => y.writer[t] = x.writer[t] /\ y.flow[t] = x.flow[t]
<1>1. PICK F : F = [x.flow EXCEPT ![s] = v] OBVIOUS
<1>2. PICK W : W = [x.writer EXCEPT ![s] = w] OBVIOUS
<1>3. x.flow \in [StreamIds -> Flow] /\ x.writer \in [StreamIds -> Writer] BY DEF Session
<1>4. F \in [StreamIds -> Flow] /\ \A t \in StreamIds : t # s => F[t] = x.flow[t] BY <1>1, <1>3
<1>5. W \in [StreamIds -> Writer] /\ W[s] = w /\ \A t \in StreamIds : t # s => W[t] = x.writer[t] BY <1>2, <1>3
<1>6. PICK a, b, c : a = x.recorded \cup {s} /\ b = x.streamFlow \cup {s} /\ c = x.recvStreams \cup {s} OBVIOUS
<1>7. a \in SUBSET StreamIds /\ b \in SUBSET StreamIds /\ c \in SUBSET StreamIds BY <1>6 DEF Session
<1>8. y = [x EXCEPT !.quota = Q, !.recorded = a, !.streamFlow = b, !.recvStreams = c, !.flow = F, !.sendStreams = S,
                    !.writer = W] BY <1>1, <1>2, <1>6 DEF OpenedAs, Session
<1>9. PICK u : u = [x EXCEPT !.quota = Q, !.recorded = a, !.streamFlow = b, !.recvStreams = c] OBVIOUS
<1>10. y = [u EXCEPT !.flow = F, !.sendStreams = S, !.writer = W] BY <1>8, <1>9 DEF Session
<1>11. /\ u \in Session /\ u.me = x.me /\ u.closed = x.closed /\ u.conn = x.conn /\ u.ready = x.ready
       /\ u.inflight = x.inflight /\ u.next = x.next /\ u.quota = Q /\ u.recv = x.recv /\ u.data = x.data
       /\ u.pending = x.pending /\ u.recorded = a /\ u.recvStreams = c BY <1>7, <1>9 DEF Session
<1>12. /\ y \in Session /\ y.me = u.me /\ y.closed = u.closed /\ y.conn = u.conn /\ y.ready = u.ready
       /\ y.inflight = u.inflight /\ y.next = u.next /\ y.quota = u.quota /\ y.recv = u.recv /\ y.data = u.data
       /\ y.pending = u.pending /\ y.recorded = u.recorded /\ y.recvStreams = u.recvStreams
       /\ y.writer = W /\ y.flow = F BY <1>4, <1>5, <1>10, <1>11, ZenonT(60) DEF Session
<1>. QED BY <1>4, <1>5, <1>6, <1>11, <1>12

\* A stream of the peer is new and within its limit.
Enters(x, s) == s.by # x.me /\ s \notin x.recorded /\ s.index < x.quota[s.dir].max

\* A stream of the peer that may enter is recorded.
LEMMA OpeningStep ==
  ASSUME NEW x \in Session, NEW p \in Int, NEW h, NEW l, EndInv(x, p, h, l), NEW s \in StreamIds,
         x.closed = "open", Enters(x, s), NEW y, y = Opening(x, s)
  PROVE  /\ y \in Session /\ y.me = x.me /\ y.closed = "open" /\ s \in y.recvStreams
         /\ EndInv(y, p, h, l) /\ y.pending = x.pending
         /\ y.recorded = x.recorded \cup {s} /\ y.recvStreams = x.recvStreams \cup {s} /\ y.recv = x.recv
         /\ \A d \in Dirs : y.quota[d].max = x.quota[d].max /\ y.quota[d].released = x.quota[d].released
<1>1. PICK Q \in [Dirs -> Quota], v \in Flow, w \in Writer, S \in SUBSET StreamIds :
           /\ \A d \in Dirs : Q[d].max = x.quota[d].max /\ Q[d].released = x.quota[d].released
           /\ w.at = (IF s.dir = "bi" THEN "idle" ELSE x.writer[s].at) /\ w.held = x.writer[s].held
           /\ y = OpenedAs(x, s, Q, v, w, S) BY OpeningIs
<1>2. y = OpenedAs(x, s, Q, v, w, S) BY <1>1
<1>3. /\ y \in Session /\ y.me = x.me /\ y.closed = x.closed /\ y.conn = x.conn /\ y.ready = x.ready
      /\ y.inflight = x.inflight /\ y.next = x.next /\ y.quota = Q /\ y.recv = x.recv /\ y.data = x.data
      /\ y.pending = x.pending /\ y.recorded = x.recorded \cup {s} /\ y.recvStreams = x.recvStreams \cup {s}
      /\ y.writer[s] = w /\ \A t \in StreamIds : t # s => y.writer[t] = x.writer[t] /\ y.flow[t] = x.flow[t]
  BY <1>2, OpenedAsDoes
<1>4. \A d \in Dirs : y.quota[d].max = x.quota[d].max /\ y.quota[d].released = x.quota[d].released BY <1>1, <1>3
<1>5. SendInv(x, p) /\ AdmitInv(x, h, l) /\ DataInv(x) /\ p >= 0 BY DEF EndInv
<1>6. x.writer[s].at = "none"
  <2>1. Named(x) BY <1>5 DEF SendInv
  <2>. QED BY <2>1 DEF Named, Enters
<1>7. y.writer[s].at \in {"none", "idle"} /\ y.writer[s].held = x.writer[s].held BY <1>1, <1>3, <1>6
<1>8. \A d \in Dirs : x.next[d] <= y.next[d] BY <1>3 DEF Session
<1>9. SendInv(y, p)
  <2>1. s.by # x.me BY DEF Enters
  <2>2. x.recorded \subseteq y.recorded /\ s \in y.recorded BY <1>3
  <2>. QED BY <1>3, <1>5, <1>6, <1>7, <1>8, <2>1, <2>2, OpenedKeeps
<1>10. AdmitInv(y, h, l)
  <2>1. s.by # x.me /\ s \notin x.recorded /\ s.index < x.quota[s.dir].max BY DEF Enters
  <2>2. \A d \in Dirs : \/ y.pending[d] = x.pending[d]
                        \/ d = s.dir /\ y.pending[d] = Append(x.pending[d], s) BY <1>3
  <2>. QED BY <1>3, <1>4, <1>5, <2>1, <2>2, EntersKeeps
<1>11. DataInv(y)
  <2>1. DataSame(x, y) BY <1>3 DEF DataSame
  <2>. QED BY <1>5, <2>1, DataInvKept
<1>. QED BY <1>3, <1>4, <1>5, <1>9, <1>10, <1>11 DEF EndInv

\* A receive side is errored: what it held counts as consumed.
LEMMA ErrorRecvStep ==
  ASSUME NEW x \in Session, NEW p, NEW h, NEW l, EndInv(x, p, h, l), NEW s \in StreamIds,
         NEW y, y = ErrorRecv(x, s)
  PROVE  /\ y \in Session /\ y.me = x.me /\ y.closed = x.closed /\ EndInv(y, p, h, l) /\ AdmitSame(x, y)
<1>1. y \in Session /\ SendSame(x, y) /\ AdmitSame(x, y) /\ (DataInv(x) => DataInv(y)) BY ErrorRecvDoes
<1>2. SendInv(x, p) /\ DataInv(x) /\ AdmitInv(x, h, l) /\ (x.closed = "open" => p >= 0) BY DEF EndInv
<1>3. SendInv(y, p) BY <1>1, <1>2, SendInvKept
<1>4. AdmitInv(y, h, l) BY <1>1, <1>2, AdmitInvKept
<1>5. y.me = x.me /\ y.closed = x.closed BY <1>1 DEF AdmitSame
<1>. QED BY <1>1, <1>2, <1>3, <1>4, <1>5 DEF EndInv

Pended(x, s) == [x EXCEPT !.pending[s.dir] = Append(@, s)]

\* A stream of the peer that may enter is created.
LEMMA IncomingStep ==
  ASSUME NEW x \in Session, NEW p \in Int, NEW h, NEW l, EndInv(x, p, h, l), NEW s \in StreamIds,
         x.closed = "open", Enters(x, s), NEW y, y = CreateIncoming(x, s)
  PROVE  /\ y \in Session /\ y.me = x.me /\ y.closed = "open" /\ s \in y.recvStreams /\ EndInv(y, p, h, l)
<1>1. PICK z : z = Opening(x, s) OBVIOUS
<1>2. /\ z \in Session /\ z.me = x.me /\ z.closed = "open" /\ s \in z.recvStreams
      /\ EndInv(z, p, h, l) /\ z.pending = x.pending
      /\ z.recorded = x.recorded \cup {s} /\ z.recvStreams = x.recvStreams \cup {s} /\ z.recv = x.recv
      /\ \A d \in Dirs : z.quota[d].max = x.quota[d].max /\ z.quota[d].released = x.quota[d].released
  BY <1>1, OpeningStep
<1>3. CASE s.dir \in x.cancelled
  <2>1. y = ErrorRecv(z, s) BY <1>1, <1>3, IncomingIs
  <2>2. /\ y \in Session /\ y.me = z.me /\ y.closed = z.closed /\ EndInv(y, p, h, l) /\ AdmitSame(z, y)
    BY <1>2, <2>1, ErrorRecvStep
  <2>. QED BY <1>2, <2>2 DEF AdmitSame
<1>4. CASE s.dir \notin x.cancelled
  <2>1. y = Pended(z, s) BY <1>1, <1>4, IncomingIs DEF Pended
  <2>2. s.dir \in Dirs BY JsAssumption
  <2>3. PICK q : q = Append(z.pending[s.dir], s) OBVIOUS
  <2>4. z.pending \in [Dirs -> Seq(StreamIds)] /\ z.pending[s.dir] \in Seq(StreamIds) BY <1>2, <2>2 DEF Session
  <2>5. q \in Seq(StreamIds) BY <2>3, <2>4
  <2>6. PICK P : P = [z.pending EXCEPT ![s.dir] = q] OBVIOUS
  <2>7. P \in [Dirs -> Seq(StreamIds)] /\ P[s.dir] = q /\ \A d \in Dirs : d # s.dir => P[d] = z.pending[d]
    BY <2>2, <2>4, <2>5, <2>6
  <2>8. y = [z EXCEPT !.pending = P] BY <2>1, <2>3, <2>6 DEF Pended
  <2>9. y \in Session /\ y.pending = P /\ y.me = z.me /\ y.closed = z.closed /\ y.recorded = z.recorded
        /\ y.recvStreams = z.recvStreams /\ y.recv = z.recv /\ y.quota = z.quota /\ y.data = z.data
    BY <1>2, <2>7, <2>8, ZenonT(60) DEF Session
  <2>10. SendSame(z, y) BY <1>2, <2>8 DEF Session, SendSame
  <2>11. DataSame(z, y) BY <2>9 DEF DataSame
  <2>12. SendInv(z, p) /\ DataInv(z) /\ p >= 0 /\ AdmitInv(x, h, l) BY <1>2 DEF EndInv
  <2>13. SendInv(y, p) BY <1>2, <2>9, <2>10, <2>12, SendInvKept
  <2>14. DataInv(y) BY <2>11, <2>12, DataInvKept
  <2>15. AdmitInv(y, h, l)
    <3>1. s.by # x.me /\ s \notin x.recorded /\ s.index < x.quota[s.dir].max BY DEF Enters
    <3>2. \A d \in Dirs : \/ y.pending[d] = x.pending[d]
                          \/ d = s.dir /\ y.pending[d] = Append(x.pending[d], s) BY <1>2, <2>3, <2>7, <2>9
    <3>3. \A d \in Dirs : y.quota[d].max = x.quota[d].max /\ y.quota[d].released = x.quota[d].released BY <1>2, <2>9
    <3>4. y.me = x.me /\ y.closed = x.closed /\ y.recorded = x.recorded \cup {s}
          /\ y.recvStreams = x.recvStreams \cup {s} /\ y.recv = x.recv BY <1>2, <2>9
    <3>. QED BY <2>9, <2>12, <3>1, <3>2, <3>3, <3>4, EntersKeeps
  <2>. QED BY <1>2, <2>9, <2>12, <2>13, <2>14, <2>15 DEF EndInv
<1>. QED BY <1>3, <1>4

\* What AdmitInv asks of a session that stays open.
LEMMA AdmitFrom ==
  ASSUME NEW x, NEW y, NEW h, NEW l, x.closed = "open", AdmitInv(x, h, l), y.closed = "open",
         Seen(y), Waiting(y, h), Slots(y, l), x.recorded \subseteq y.recorded
  PROVE  AdmitInv(y, h, l)
BY DEF AdmitInv, Slots

\* The receive side of an ended stream leaves the map.
LEMMA LeavesKeeps ==
  ASSUME NEW x \in Session, NEW y \in Session, NEW h, NEW l, NEW s \in StreamIds, x.recv[s].terminal,
         y.me = x.me, y.recorded = x.recorded, y.pending = x.pending, y.quota = x.quota, y.recv = x.recv,
         y.recvStreams = x.recvStreams \ {s}, Seen(x), Waiting(x, h), Slots(x, l)
  PROVE  Seen(y) /\ Waiting(y, h) /\ Slots(y, l)
<1>1. Seen(y) BY DEF Seen
<1>2. Waiting(y, h) BY DEF Waiting
<1>3. \A d \in Dirs : Freed(y, d) = Freed(x, d)
  <2>. TAKE d \in Dirs
  <2>1. \A t : t \in Freed(y, d) <=> t \in Freed(x, d) BY DEF Freed
  <2>. QED BY <2>1
<1>4. Slots(y, l) BY <1>3 DEF Slots
<1>. QED BY <1>1, <1>2, <1>4

Left(x, s) == [x EXCEPT !.recvStreams = @ \ {s}]

\* A receive side leaves the map and nothing else changes.
LEMMA LeftDoes ==
  ASSUME NEW x \in Session, NEW s, NEW y, y = Left(x, s)
  PROVE  /\ y \in Session /\ SendSame(x, y) /\ DataSame(x, y)
         /\ y.me = x.me /\ y.closed = x.closed /\ y.recorded = x.recorded /\ y.pending = x.pending
         /\ y.quota = x.quota /\ y.recv = x.recv /\ y.recvStreams = x.recvStreams \ {s}
<1>1. PICK R : R = x.recvStreams \ {s} OBVIOUS
<1>2. R \in SUBSET StreamIds BY <1>1 DEF Session
<1>3. y = [x EXCEPT !.recvStreams = R] BY <1>1 DEF Left
<1>4. y \in Session BY <1>2, <1>3 DEF Session
<1>5. SendSame(x, y) BY <1>3 DEF Session, SendSame
<1>6. /\ y.me = x.me /\ y.closed = x.closed /\ y.recorded = x.recorded /\ y.pending = x.pending
      /\ y.quota = x.quota /\ y.recv = x.recv /\ y.recvStreams = R /\ y.data = x.data BY <1>3 DEF Session
<1>. QED BY <1>1, <1>4, <1>5, <1>6 DEF DataSame

\* The record of a stream is deleted when both halves are gone.
LEMMA MaybeDeleteStep ==
  ASSUME NEW x \in Session, NEW p \in Int, NEW h, NEW l, EndInv(x, p, h, l), NEW s \in StreamIds,
         NEW y, y = MaybeDeleteStreamFlow(x, s)
  PROVE  y \in Session /\ y.me = x.me /\ EndInv(y, p, h, l)
<1>1. y \in Session /\ RecvSame(x, y) BY MaybeDeleteDoes
<1>2. SendInv(x, p) /\ (x.closed = "open" => p >= 0) BY DEF EndInv
<1>3. SendInv(y, p) BY <1>2, MaybeDeleteKeeps
<1>. QED BY <1>1, <1>2, <1>3, EndInvKept

\* A stream ends: its slot may go back.
LEMMA NotifyStep ==
  ASSUME NEW x \in Session, NEW p, NEW h, NEW l \in Int, SendInv(x, p), AdmitInv(x, h, l), NEW s \in StreamIds,
         x.closed = "open", s \in x.recvStreams, NEW y, y = NotifyTerminal(x, s)
  PROVE  /\ y \in Session /\ y.me = x.me /\ y.closed = "open" /\ y.recvStreams = x.recvStreams
         /\ DataSame(x, y) /\ SendInv(y, p) /\ AdmitInv(y, h, l) /\ y.recv[s].terminal
<1>1. Seen(x) /\ Waiting(x, h) /\ Slots(x, l) BY DEF AdmitInv
<1>3. /\ y \in Session /\ SendSame(x, y) /\ DataSame(x, y) /\ y.recorded = x.recorded
      /\ y.recvStreams = x.recvStreams /\ y.pending = x.pending /\ y.recv[s].terminal
      /\ Seen(y) /\ Waiting(y, h) /\ Slots(y, l) BY <1>1, NotifyTerminalKeeps
<1>4. y.me = x.me /\ y.closed = "open" BY <1>3 DEF SendSame
<1>. QED BY <1>3, <1>4, SendInvKept, AdmitFrom

\* Its receive side leaves the map, and its record may follow.
LEMMA LeaveStep ==
  ASSUME NEW x \in Session, NEW p \in Int, NEW h, NEW l, EndInv(x, p, h, l), NEW s \in StreamIds,
         x.closed = "open", x.recv[s].terminal, NEW y, y = MaybeDeleteStreamFlow(Left(x, s), s)
  PROVE  y \in Session /\ y.me = x.me /\ EndInv(y, p, h, l)
<1>0. SendInv(x, p) /\ DataInv(x) /\ AdmitInv(x, h, l) /\ p >= 0 BY DEF EndInv
<1>1. Seen(x) /\ Waiting(x, h) /\ Slots(x, l) BY <1>0 DEF AdmitInv
<1>4. PICK b : b = Left(x, s) OBVIOUS
<1>5. /\ b \in Session /\ SendSame(x, b) /\ DataSame(x, b)
      /\ b.me = x.me /\ b.closed = x.closed /\ b.recorded = x.recorded /\ b.pending = x.pending
      /\ b.quota = x.quota /\ b.recv = x.recv /\ b.recvStreams = x.recvStreams \ {s} BY <1>4, LeftDoes
<1>6. Seen(b) /\ Waiting(b, h) /\ Slots(b, l) BY <1>1, <1>5, LeavesKeeps
<1>8. SendInv(b, p) /\ DataInv(b) BY <1>0, <1>5, SendInvKept, DataInvKept
<1>10. AdmitInv(b, h, l) BY <1>0, <1>5, <1>6, AdmitFrom
<1>11. EndInv(b, p, h, l) BY <1>0, <1>5, <1>8, <1>10 DEF EndInv
<1>. QED BY <1>4, <1>5, <1>11, MaybeDeleteStep

Fin(x, s) == [x EXCEPT !.recv[s].fin = TRUE]

\* FIN.
LEMMA FinishStep ==
  ASSUME NEW x \in Session, NEW p \in Int, NEW h, NEW l \in Int, EndInv(x, p, h, l), NEW s \in StreamIds,
         x.closed = "open", s \in x.recvStreams, NEW y, y = Finish(x, s)
  PROVE  y \in Session /\ y.me = x.me /\ EndInv(y, p, h, l)
<1>1. PICK z : z = Fin(x, s) OBVIOUS
<1>2. y = MaybeDeleteStreamFlow(Left(NotifyTerminal(z, s), s), s) BY <1>1, Zenon DEF Finish, Left, Fin
<1>3. PICK t \in BOOLEAN : t = TRUE OBVIOUS
<1>4. x.recv \in [StreamIds -> Recv] /\ x.recv[s] \in Recv BY DEF Session
<1>5. PICK r : r = [x.recv[s] EXCEPT !.fin = t] OBVIOUS
<1>6. r \in Recv /\ r.queue = x.recv[s].queue /\ r.accepted = x.recv[s].accepted
      /\ r.replenished = x.recv[s].replenished /\ r.terminal = x.recv[s].terminal BY <1>4, <1>5 DEF Recv
<1>7. PICK R : R = [x.recv EXCEPT ![s] = r] OBVIOUS
<1>8. R \in [StreamIds -> Recv] /\ R[s] = r /\ \A u \in StreamIds : u # s => R[u] = x.recv[u] BY <1>4, <1>6, <1>7
<1>9. z = [x EXCEPT !.recv = R] BY <1>1, <1>3, <1>5, <1>7 DEF Fin
<1>10. /\ z \in Session /\ z.me = x.me /\ z.closed = x.closed /\ z.recorded = x.recorded /\ z.pending = x.pending
       /\ z.quota = x.quota /\ z.recv = R /\ z.recvStreams = x.recvStreams /\ z.data = x.data BY <1>8, <1>9 DEF Session
<1>11. SendSame(x, z) BY <1>9 DEF Session, SendSame
<1>12. RecvSame(x, z) BY <1>6, <1>8, <1>10 DEF RecvSame, DataSame, AdmitSame
<1>13. SendInv(x, p) /\ p >= 0 BY DEF EndInv
<1>14. SendInv(z, p) BY <1>10, <1>11, <1>13, SendInvKept
<1>15. EndInv(z, p, h, l) BY <1>10, <1>12, <1>13, <1>14, EndInvKept
<1>16. PICK b : b = NotifyTerminal(z, s) OBVIOUS
<1>17. /\ b \in Session /\ b.me = x.me /\ b.closed = "open" /\ b.recv[s].terminal
       /\ DataSame(z, b) /\ SendInv(b, p) /\ AdmitInv(b, h, l) BY <1>10, <1>15, <1>16, NotifyStep DEF EndInv
<1>18. DataInv(b) BY <1>15, <1>17, DataInvKept DEF EndInv
<1>19. EndInv(b, p, h, l) BY <1>13, <1>17, <1>18 DEF EndInv
<1>. QED BY <1>2, <1>16, <1>17, <1>19, LeaveStep

\* Received bytes are added to the connection's and the stream's offsets.
LEMMA AccountRecvDoes ==
  ASSUME NEW x \in Session, NEW s \in StreamIds, NEW n \in Int, NEW y, y = AccountRecv(x, s, n)
  PROVE  /\ y \in Session /\ SendSame(x, y) /\ AdmitSame(x, y) /\ y.recv = x.recv
         /\ y.data.offset = x.data.offset + n /\ y.data.consumed = x.data.consumed /\ y.data.max = x.data.max
<1>1. x.data \in Data /\ x.flow \in [StreamIds -> Flow] /\ x.flow[s] \in Flow BY DEF Session
<1>2. PICK D : D = [x.data EXCEPT !.offset = @ + n] OBVIOUS
<1>3. D \in Data /\ D.offset = x.data.offset + n /\ D.consumed = x.data.consumed /\ D.max = x.data.max
  BY <1>1, <1>2 DEF Data
<1>4. PICK v : v = [x.flow[s] EXCEPT !.recvOffset = @ + n] OBVIOUS
<1>5. v \in Flow /\ v.max = x.flow[s].max /\ v.used = x.flow[s].used BY <1>1, <1>4 DEF Flow
<1>6. PICK F : F = [x.flow EXCEPT ![s] = v] OBVIOUS
<1>7. F \in [StreamIds -> Flow] /\ \A t \in StreamIds : F[t].max = x.flow[t].max /\ F[t].used = x.flow[t].used
  BY <1>1, <1>5, <1>6
<1>8. y = [x EXCEPT !.data = D, !.flow = F] BY <1>2, <1>4, <1>6 DEF AccountRecv, Session
<1>9. y \in Session /\ y.data = D /\ y.flow = F /\ y.recv = x.recv BY <1>3, <1>7, <1>8 DEF Session
<1>10. SendSame(x, y) BY <1>7, <1>8, <1>9 DEF Session, SendSame
<1>11. AdmitSame(x, y) BY <1>8 DEF Session, AdmitSame
<1>. QED BY <1>3, <1>9, <1>10, <1>11

Queued(x, s, n) == [x EXCEPT !.recv[s].queue = Append(@, n)]

\* Bytes that arrive are queued, or counted as consumed.
LEMMA PushStep ==
  ASSUME NEW x \in Session, NEW p \in Int, NEW h, NEW l, EndInv(x, p, h, l), NEW s \in StreamIds, NEW n \in Nat,
         NEW y, y = Push(AccountRecv(x, s, n), s, n)
  PROVE  y \in Session /\ y.me = x.me /\ y.closed = x.closed /\ y.recvStreams = x.recvStreams /\ EndInv(y, p, h, l)
<1>0. SendInv(x, p) /\ DataInv(x) /\ AdmitInv(x, h, l) /\ (x.closed = "open" => p >= 0) BY DEF EndInv
<1>1. PICK a : a = AccountRecv(x, s, n) OBVIOUS
<1>2. /\ a \in Session /\ SendSame(x, a) /\ AdmitSame(x, a) /\ a.recv = x.recv
      /\ a.data.offset = x.data.offset + n /\ a.data.consumed = x.data.consumed /\ a.data.max = x.data.max
  BY <1>1, AccountRecvDoes
<1>3. InQueues(a) = InQueues(x) /\ a.closed = x.closed BY <1>2 DEF InQueues, AdmitSame
<1>5. y \in Session /\ SendSame(a, y) /\ AdmitSame(a, y) /\ DataInv(y)
  <2>1. CASE n = 0
    <3>1. y = a BY <1>1, <2>1 DEF Push
    <3>2. Missing(a) = Missing(x) BY <1>2, <1>3, <2>1, MissingType DEF Missing
    <3>3. DataInv(a) BY <1>0, <1>2, <1>3, <3>2, DataInvMoves DEF Windowed
    <3>. QED BY <1>2, <3>1, <3>3, SameIsTransitive
  <2>2. CASE n # 0 /\ (a.recv[s].fin \/ a.recv[s].error)
    <3>1. y = AccountConnConsumed(a, n) BY <1>1, <2>2 DEF Push
    <3>2. a.data.offset - InQueues(a) = (x.data.offset - InQueues(x)) + n BY <1>2, <1>3, MissingType
    <3>. QED BY <1>0, <1>2, <1>3, <3>1, <3>2, AccountedDoes
  <2>3. CASE n # 0 /\ ~(a.recv[s].fin \/ a.recv[s].error)
    <3>1. y = Queued(a, s, n) BY <1>1, <2>3 DEF Push, Queued
    <3>2. a.recv \in [StreamIds -> Recv] /\ a.recv[s] \in Recv /\ a.recv[s].queue \in Seq(Nat) BY <1>2 DEF Session, Recv
    <3>3. PICK q : q = Append(a.recv[s].queue, n) OBVIOUS
    <3>4. q \in Seq(Nat) BY <3>2, <3>3
    <3>5. PICK r : r = [a.recv[s] EXCEPT !.queue = q] OBVIOUS
    <3>6. r \in Recv /\ r.queue = q /\ r.accepted = a.recv[s].accepted
          /\ r.replenished = a.recv[s].replenished /\ r.terminal = a.recv[s].terminal BY <3>2, <3>4, <3>5 DEF Recv
    <3>7. PICK R : R = [a.recv EXCEPT ![s] = r] OBVIOUS
    <3>8. R \in [StreamIds -> Recv] /\ R[s] = r /\ \A u \in StreamIds : u # s => R[u] = a.recv[u] BY <3>2, <3>6, <3>7
    <3>9. y = [a EXCEPT !.recv = R] BY <3>1, <3>3, <3>5, <3>7 DEF Queued
    <3>10. /\ y \in Session /\ y.me = a.me /\ y.closed = a.closed /\ y.recorded = a.recorded /\ y.pending = a.pending
           /\ y.quota = a.quota /\ y.recv = R /\ y.recvStreams = a.recvStreams /\ y.data = a.data
      BY <1>2, <3>8, <3>9, ZenonT(60) DEF Session
    <3>11. SendSame(a, y) BY <1>2, <3>9 DEF Session, SendSame
    <3>12. AdmitSame(a, y) BY <3>6, <3>8, <3>10 DEF AdmitSame
    <3>13. Buffered(y.recv[s]) = Buffered(a.recv[s]) + n
      <4>1. a.recv[s].queue \in Seq(Int) BY <3>2
      <4>2. SumFunction(q) = SumFunction(a.recv[s].queue) + n BY <3>3, <4>1, SumAppend
      <4>. QED BY <3>6, <3>8, <3>10, <4>2 DEF Buffered
    <3>14. InQueues(y) = InQueues(a) + (Buffered(y.recv[s]) - Buffered(a.recv[s]))
      <4>1. \A t \in StreamIds : t # s => y.recv[t].queue = a.recv[t].queue BY <3>8, <3>10
      <4>. QED BY <1>2, <3>10, <4>1, InQueuesMoves
    <3>15. Buffered(a.recv[s]) \in Int BY <1>2, InQueuesType
    <3>16. Missing(y) = Missing(x) BY <1>2, <1>3, <3>10, <3>13, <3>14, <3>15, MissingType DEF Missing
    <3>17. Windowed(x) => Windowed(y) BY <1>2, <3>10 DEF Windowed
    <3>18. DataInv(y) BY <1>0, <1>3, <3>10, <3>16, <3>17, DataInvMoves
    <3>. QED BY <3>10, <3>11, <3>12, <3>18
  <2>. QED BY <2>1, <2>2, <2>3
<1>6. SendSame(x, y) /\ AdmitSame(x, y) BY <1>2, <1>5, SameIsTransitive
<1>7. SendInv(y, p) /\ AdmitInv(y, h, l) BY <1>0, <1>5, <1>6, SendInvKept, AdmitInvKept
<1>8. y.me = x.me /\ y.closed = x.closed /\ y.recvStreams = x.recvStreams BY <1>6 DEF AdmitSame
<1>. QED BY <1>0, <1>5, <1>7, <1>8 DEF EndInv

\* STREAM.
LEMMA StreamFrameStep ==
  ASSUME NEW x \in Session, NEW p \in Int, NEW h, NEW l \in Int, EndInv(x, p, h, l),
         NEW f, f.id \in StreamIds, f.n \in Nat, NEW y, y = HandleStreamFrame(x, f)
  PROVE  y \in Session /\ y.me = x.me /\ EndInv(y, p, h, l)
<1>1. PICK s \in StreamIds, n \in Nat, b \in {f.fin} : s = f.id /\ n = f.n /\ b = f.fin OBVIOUS
<1>2. PICK a : a = IF s \in x.recvStreams THEN x ELSE CreateIncoming(x, s) OBVIOUS
<1>3. PICK z : z = Push(AccountRecv(a, s, n), s, n) OBVIOUS
<1>4. \/ y = x
      \/ y = Accuse(x)
      \/ /\ x.closed = "open" /\ CanRecv(x.me, s)
         /\ s \in x.recvStreams \/ (s.by # x.me /\ ~IsClosed(x, s) /\ ~(s.index + 1 > x.quota[s.dir].max))
         /\ y = Accuse(a) \/ y = Accuse(ChargeConn(a, n)) \/ y = Finish(z, s) \/ y = z BY <1>1, <1>2, <1>3 DEF HandleStreamFrame
<1>5. CASE y = x BY <1>5
<1>6. CASE y = Accuse(x) BY <1>6, AccuseStep
<1>7. CASE /\ x.closed = "open" /\ CanRecv(x.me, s)
           /\ s \in x.recvStreams \/ (s.by # x.me /\ ~IsClosed(x, s) /\ ~(s.index + 1 > x.quota[s.dir].max))
           /\ y = Accuse(a) \/ y = Accuse(ChargeConn(a, n)) \/ y = Finish(z, s) \/ y = z
  <2>1. a \in Session /\ a.me = x.me /\ a.closed = "open" /\ s \in a.recvStreams /\ EndInv(a, p, h, l)
    <3>1. CASE s \in x.recvStreams BY <1>2, <1>7, <3>1
    <3>2. CASE s \notin x.recvStreams
      <4>1. a = CreateIncoming(x, s) BY <1>2, <3>2
      <4>2. s.index \in Int /\ s.dir \in Dirs BY JsAssumption
      <4>3. x.quota[s.dir].max \in Int BY <4>2 DEF Session, Quota
      <4>4. Enters(x, s) BY <1>7, <3>2, <4>2, <4>3 DEF Enters, IsClosed
      <4>. QED BY <1>7, <4>1, <4>4, IncomingStep
    <3>. QED BY <3>1, <3>2
  <2>2. z \in Session /\ z.me = a.me /\ z.closed = a.closed /\ z.recvStreams = a.recvStreams /\ EndInv(z, p, h, l)
    BY <1>3, <2>1, PushStep
  <2>3. CASE y = Accuse(a) BY <2>1, <2>3, AccuseStep
  <2>4. CASE y = Finish(z, s) BY <2>1, <2>2, <2>4, FinishStep
  <2>5. CASE y = z BY <2>1, <2>2, <2>5
  <2>6. CASE y = Accuse(ChargeConn(a, n)) BY <2>1, <2>6, OverrunStep
  <2>. QED BY <1>7, <2>3, <2>4, <2>5, <2>6
<1>. QED BY <1>4, <1>5, <1>6, <1>7

\* Bytes that will not be delivered are received and consumed at once.
LEMMA SkippedStep ==
  ASSUME NEW x \in Session, NEW p \in Int, NEW h, NEW l, EndInv(x, p, h, l), NEW n \in Nat,
         NEW a \in Session, SendSame(x, a), AdmitSame(x, a), a.recv = x.recv,
         a.data.offset = x.data.offset + n, a.data.consumed = x.data.consumed, a.data.max = x.data.max,
         NEW y, y = AccountConnConsumed(a, n)
  PROVE  y \in Session /\ AdmitSame(x, y) /\ SendSame(x, y) /\ y.recv = x.recv /\ EndInv(y, p, h, l)
<1>0. SendInv(x, p) /\ DataInv(x) /\ AdmitInv(x, h, l) /\ (x.closed = "open" => p >= 0) BY DEF EndInv
<1>1. InQueues(a) = InQueues(x) /\ x.closed = a.closed BY DEF InQueues, AdmitSame
<1>2. a.data.offset - InQueues(a) = (x.data.offset - InQueues(x)) + n BY <1>1, MissingType
<1>5. /\ y \in Session /\ SendSame(a, y) /\ AdmitSame(a, y) /\ y.recv = a.recv /\ DataInv(y)
  BY <1>0, <1>1, <1>2, AccountedDoes
<1>9. SendSame(x, y) /\ AdmitSame(x, y) BY <1>5, SameIsTransitive
<1>10. SendInv(y, p) /\ AdmitInv(y, h, l) BY <1>0, <1>5, <1>9, SendInvKept, AdmitInvKept
<1>11. y.closed = x.closed BY <1>9 DEF AdmitSame
<1>. QED BY <1>0, <1>5, <1>9, <1>10, <1>11 DEF EndInv

Recorded(x, s) == [x EXCEPT !.quota[s.dir].used = AtLeast(@, s.index + 1), !.recorded = @ \cup {s}]

\* A stream whose first frame is RESET_STREAM is only recorded.
LEMMA RecordedDoes ==
  ASSUME NEW x \in Session, NEW s \in StreamIds, NEW y, y = Recorded(x, s)
  PROVE  /\ y \in Session /\ y.recorded = x.recorded \cup {s}
         /\ \A d \in Dirs : /\ y.quota[d].max = x.quota[d].max /\ y.quota[d].released = x.quota[d].released
                            /\ d # s.dir => y.quota[d] = x.quota[d]
         /\ y.me = x.me /\ y.closed = x.closed /\ y.conn = x.conn /\ y.ready = x.ready /\ y.inflight = x.inflight
         /\ y.next = x.next /\ y.writer = x.writer /\ y.flow = x.flow /\ y.data = x.data /\ y.recv = x.recv
         /\ y.pending = x.pending /\ y.recvStreams = x.recvStreams
<1>1. s.dir \in Dirs /\ s.index \in Nat BY JsAssumption
<1>2. x.quota \in [Dirs -> Quota] /\ x.quota[s.dir] \in Quota /\ x.quota[s.dir].used \in Int BY <1>1 DEF Session, Quota
<1>3. PICK n : n = AtLeast(x.quota[s.dir].used, s.index + 1) OBVIOUS
<1>4. n \in Int BY <1>1, <1>2, <1>3 DEF AtLeast
<1>5. PICK q : q = [x.quota[s.dir] EXCEPT !.used = n] OBVIOUS
<1>6. q \in Quota /\ q.max = x.quota[s.dir].max /\ q.released = x.quota[s.dir].released BY <1>2, <1>4, <1>5 DEF Quota
<1>7. PICK Q : Q = [x.quota EXCEPT ![s.dir] = q] OBVIOUS
<1>8. Q \in [Dirs -> Quota] /\ \A d \in Dirs : /\ Q[d].max = x.quota[d].max /\ Q[d].released = x.quota[d].released
                                               /\ d # s.dir => Q[d] = x.quota[d] BY <1>1, <1>2, <1>6, <1>7
<1>9. PICK S : S = x.recorded \cup {s} OBVIOUS
<1>10. S \in SUBSET StreamIds BY <1>9 DEF Session
<1>11. y = [x EXCEPT !.quota = Q, !.recorded = S] BY <1>3, <1>5, <1>7, <1>9 DEF Recorded, Session
<1>12. y \in Session BY <1>8, <1>10, <1>11 DEF Session
<1>13. /\ y.quota = Q /\ y.recorded = S
       /\ y.me = x.me /\ y.closed = x.closed /\ y.conn = x.conn /\ y.ready = x.ready /\ y.inflight = x.inflight
       /\ y.next = x.next /\ y.writer = x.writer /\ y.flow = x.flow /\ y.data = x.data /\ y.recv = x.recv
       /\ y.pending = x.pending /\ y.recvStreams = x.recvStreams BY <1>11 DEF Session
<1>. QED BY <1>8, <1>9, <1>12, <1>13

\* RESET_STREAM for a stream that was never seen: it is recorded as ended, and its slot goes back.
LEMMA UnseenStep ==
  ASSUME NEW x \in Session, NEW p \in Int, NEW h, NEW l \in Int, EndInv(x, p, h, l), NEW s \in StreamIds,
         Enters(x, s), NEW y, y = ReplenishStreamCredit(Recorded(x, s), s.dir)
  PROVE  y \in Session /\ y.me = x.me /\ EndInv(y, p, h, l)
<1>0. SendInv(x, p) /\ DataInv(x) /\ AdmitInv(x, h, l) /\ (x.closed = "open" => p >= 0) BY DEF EndInv
<1>1. PICK c : c = Recorded(x, s) OBVIOUS
<1>2. /\ c \in Session /\ c.recorded = x.recorded \cup {s}
      /\ \A d \in Dirs : /\ c.quota[d].max = x.quota[d].max /\ c.quota[d].released = x.quota[d].released
                         /\ d # s.dir => c.quota[d] = x.quota[d]
      /\ c.me = x.me /\ c.closed = x.closed /\ c.conn = x.conn /\ c.ready = x.ready /\ c.inflight = x.inflight
      /\ c.next = x.next /\ c.writer = x.writer /\ c.flow = x.flow /\ c.data = x.data /\ c.recv = x.recv
      /\ c.pending = x.pending /\ c.recvStreams = x.recvStreams BY <1>1, RecordedDoes
<1>3. s.dir \in Dirs /\ s.index \in Int BY JsAssumption
<1>4. c.quota[s.dir].released >= 0 BY <1>0, <1>2, <1>3 DEF AdmitInv
<1>5. y = ReplenishStreamCredit(c, s.dir) BY <1>1
<1>6. /\ y \in Session /\ SendSame(c, y) /\ DataSame(c, y)
      /\ y.pending = c.pending /\ y.recvStreams = c.recvStreams /\ y.recv = c.recv
      /\ \A d \in Dirs : d # s.dir => y.quota[d] = c.quota[d]
      /\ y.quota[s.dir].max + y.quota[s.dir].released = c.quota[s.dir].max + c.quota[s.dir].released + 1
      /\ y.quota[s.dir].max >= c.quota[s.dir].max /\ y.quota[s.dir].released >= 0
  BY <1>2, <1>3, <1>4, <1>5, ReplenishDoes
<1>7. y.me = x.me /\ y.closed = x.closed /\ y.recorded = x.recorded \cup {s} BY <1>2, <1>6 DEF SendSame
<1>8. s.by # x.me /\ s \notin x.recorded /\ s.index < x.quota[s.dir].max BY DEF Enters
<1>9. SendInv(y, p)
  <2>1. CASE x.closed = "open"
    <3>1. x.writer[s].at = "none"
      <4>1. Named(x) BY <1>0, <2>1 DEF SendInv
      <4>. QED BY <1>8, <4>1 DEF Named
    <3>2. \A d \in Dirs : x.next[d] <= c.next[d] BY <1>2 DEF Session
    <3>3. SendInv(c, p) BY <1>0, <1>2, <1>8, <2>1, <3>1, <3>2, OpenedKeeps
    <3>. QED BY <1>2, <1>6, <3>3, SendInvKept
  <2>2. CASE x.closed # "open" BY <1>7, <2>2 DEF SendInv
  <2>. QED BY <2>1, <2>2
<1>10. DataInv(y)
  <2>1. DataSame(x, c) BY <1>2 DEF DataSame
  <2>2. DataSame(x, y) BY <1>6, <2>1, SameIsTransitive
  <2>. QED BY <1>0, <2>2, DataInvKept
<1>11. \A d \in Dirs : y.quota[d].released >= 0 BY <1>0, <1>2, <1>6 DEF AdmitInv
<1>12. CASE x.closed # "open"
  <2>1. AdmitInv(y, h, l) BY <1>0, <1>2, <1>6, <1>7, <1>11, <1>12 DEF AdmitInv
  <2>. QED BY <1>0, <1>6, <1>7, <1>9, <1>10, <2>1 DEF EndInv
<1>13. CASE x.closed = "open"
  <2>1. Seen(x) /\ Waiting(x, h) /\ Slots(x, l) BY <1>0, <1>13 DEF AdmitInv
  <2>2. s \notin x.recvStreams /\ ~x.recv[s].accepted /\ ~x.recv[s].terminal /\ ~x.recv[s].replenished
    BY <1>8, <2>1 DEF Seen
  <2>3. Replenished(x, y, s.dir) BY <1>2, <1>3, <1>6 DEF Replenished
  <2>4. Seen(y)
    <3>1. \A t \in y.recorded : t.by # y.me /\ t.index < y.quota[t.dir].max
      <4>. SUFFICES ASSUME NEW t \in y.recorded PROVE t.by # x.me /\ t.index < y.quota[t.dir].max BY <1>7
      <4>1. t \in StreamIds /\ t.dir \in Dirs /\ t.index \in Int BY <1>6, JsAssumption DEF Session
      <4>2. x.quota[t.dir].max \in Int /\ y.quota[t.dir].max \in Int BY <1>6, <4>1 DEF Session, Quota
      <4>3. y.quota[t.dir].max >= x.quota[t.dir].max BY <1>2, <1>6, <4>1, <4>2
      <4>4. t.by # x.me /\ t.index < x.quota[t.dir].max BY <1>7, <1>8, <2>1 DEF Seen
      <4>. QED BY <4>1, <4>2, <4>3, <4>4
    <3>2. y.recv = x.recv /\ y.recvStreams = x.recvStreams BY <1>2, <1>6
    <3>. QED BY <1>7, <2>1, <3>1, <3>2 DEF Seen
  <2>5. Waiting(y, h)
    <3>1. y.recv = x.recv /\ y.recvStreams = x.recvStreams /\ y.pending = x.pending BY <1>2, <1>6
    <3>. QED BY <1>7, <2>1, <3>1 DEF Waiting
  <2>6. Slots(y, l)
    <3>1. y.recv = x.recv /\ y.recvStreams = x.recvStreams BY <1>2, <1>6
    <3>2. \A d \in Dirs : \A t : t # s => (t \in Freed(y, d) <=> t \in Freed(x, d)) BY <1>7, <3>1 DEF Freed
    <3>3. \A d \in Dirs : s \notin Freed(x, d) /\ (s \in Freed(y, d) <=> s.dir = d) BY <1>7, <1>8, <2>2, <3>1 DEF Freed
    <3>4. Freed(y, s.dir) = Freed(x, s.dir) \cup {s}
      <4>1. \A t : t \in Freed(y, s.dir) <=> t \in Freed(x, s.dir) \cup {s} BY <1>3, <3>2, <3>3
      <4>. QED BY <4>1
    <3>5. \A d \in Dirs : d # s.dir => Freed(y, d) = Freed(x, d)
      <4>. SUFFICES ASSUME NEW d \in Dirs, d # s.dir PROVE Freed(y, d) = Freed(x, d) OBVIOUS
      <4>1. \A t : t \in Freed(y, d) <=> t \in Freed(x, d) BY <3>2, <3>3
      <4>. QED BY <4>1
    <3>. QED BY <1>3, <1>6, <2>1, <2>3, <3>3, <3>4, <3>5, FreedGrows
  <2>7. AdmitInv(y, h, l)
    <3>1. x.recorded \subseteq y.recorded /\ y.closed = "open" BY <1>7, <1>13
    <3>. QED BY <1>0, <1>13, <2>4, <2>5, <2>6, <3>1, AdmitFrom
  <2>. QED BY <1>0, <1>6, <1>7, <1>9, <1>10, <2>7 DEF EndInv
<1>. QED BY <1>12, <1>13

SeenTail(x, s, gap, final) == [x EXCEPT !.data.offset = @ + gap, !.flow[s].recvOffset = final]
Received(x, s) == IF s \in x.streamFlow THEN x.flow[s].recvOffset ELSE 0

\* What RESET_STREAM comes to.
LEMMA ResetIs ==
  ASSUME NEW x, NEW f
  PROVE  LET s == f.id
             final == AtLeast(f.size, Received(x, s))
             gap == final - Received(x, s)
             y == HandleResetStream(x, f)
         IN \/ y = x
            \/ y = Accuse(x)
            \/ /\ s \in x.recvStreams
               /\ y = MaybeDeleteStreamFlow(Left(AccountConnConsumed(
                        NotifyTerminal(Errored(SeenTail(x, s, gap, final), s), s), gap + Discarded(x, s)), s), s)
            \/ /\ s.by # x.me /\ ~IsClosed(x, s) /\ ~(s.index + 1 > x.quota[s.dir].max)
               /\ y = ReplenishStreamCredit(Recorded(AccountConnConsumed(ChargeConn(x, gap), gap), s), s.dir)
BY Zenon DEF HandleResetStream, SeenTail, Received, Left, Recorded

\* The tail that a reset declares is counted, stream known.
LEMMA SeenTailDoes ==
  ASSUME NEW x \in Session, NEW s \in StreamIds, NEW n \in Int, NEW m \in Int, NEW y, y = SeenTail(x, s, n, m)
  PROVE  /\ y \in Session /\ SendSame(x, y) /\ AdmitSame(x, y) /\ y.recv = x.recv
         /\ y.data.offset = x.data.offset + n /\ y.data.consumed = x.data.consumed /\ y.data.max = x.data.max
<1>1. x.data \in Data /\ x.flow \in [StreamIds -> Flow] /\ x.flow[s] \in Flow BY DEF Session
<1>2. PICK D : D = [x.data EXCEPT !.offset = @ + n] OBVIOUS
<1>3. D \in Data /\ D.offset = x.data.offset + n /\ D.consumed = x.data.consumed /\ D.max = x.data.max
  BY <1>1, <1>2 DEF Data
<1>4. PICK v : v = [x.flow[s] EXCEPT !.recvOffset = m] OBVIOUS
<1>5. v \in Flow /\ v.max = x.flow[s].max /\ v.used = x.flow[s].used BY <1>1, <1>4 DEF Flow
<1>6. PICK F : F = [x.flow EXCEPT ![s] = v] OBVIOUS
<1>7. F \in [StreamIds -> Flow] /\ \A t \in StreamIds : F[t].max = x.flow[t].max /\ F[t].used = x.flow[t].used
  BY <1>1, <1>5, <1>6
<1>8. y = [x EXCEPT !.data = D, !.flow = F] BY <1>2, <1>4, <1>6 DEF SeenTail, Session
<1>9. y \in Session /\ y.data = D /\ y.flow = F /\ y.recv = x.recv BY <1>3, <1>7, <1>8 DEF Session
<1>10. SendSame(x, y) BY <1>7, <1>8, <1>9 DEF Session, SendSame
<1>11. AdmitSame(x, y) BY <1>8 DEF Session, AdmitSame
<1>. QED BY <1>3, <1>9, <1>10, <1>11

\* RESET_STREAM.
LEMMA ResetStep ==
  ASSUME NEW x \in Session, NEW p \in Int, NEW h, NEW l \in Int, EndInv(x, p, h, l),
         NEW f, f.id \in StreamIds, f.size \in Int, NEW y, y = HandleResetStream(x, f)
  PROVE  y \in Session /\ y.me = x.me /\ EndInv(y, p, h, l)
<1>1. PICK s \in StreamIds : s = f.id OBVIOUS
<1>2. PICK final, gap : final = AtLeast(f.size, Received(x, s)) /\ gap = final - Received(x, s) OBVIOUS
<1>3. Received(x, s) \in Int
  <2>1. x.flow[s].recvOffset \in Int BY DEF Session, Flow
  <2>. QED BY <2>1 DEF Received
<1>4. final \in Int /\ gap \in Nat BY <1>2, <1>3 DEF AtLeast
<1>5. \/ y = x
      \/ y = Accuse(x)
      \/ /\ s \in x.recvStreams
         /\ y = MaybeDeleteStreamFlow(Left(AccountConnConsumed(
                  NotifyTerminal(Errored(SeenTail(x, s, gap, final), s), s), gap + Discarded(x, s)), s), s)
      \/ /\ s.by # x.me /\ ~IsClosed(x, s) /\ ~(s.index + 1 > x.quota[s.dir].max)
         /\ y = ReplenishStreamCredit(Recorded(AccountConnConsumed(ChargeConn(x, gap), gap), s), s.dir)
  BY <1>1, <1>2, ResetIs
<1>6. CASE y = x BY <1>6
<1>7. CASE y = Accuse(x) BY <1>7, AccuseStep
<1>8. CASE /\ s \in x.recvStreams
           /\ y = MaybeDeleteStreamFlow(Left(AccountConnConsumed(
                    NotifyTerminal(Errored(SeenTail(x, s, gap, final), s), s), gap + Discarded(x, s)), s), s)
  <2>1. x.closed = "open" BY <1>8 DEF EndInv, AdmitInv
  <2>2. PICK a : a = SeenTail(x, s, gap, final) OBVIOUS
  <2>3. PICK b, k : b = Errored(a, s) /\ k = Discarded(x, s) OBVIOUS
  <2>4. PICK c, d : c = NotifyTerminal(b, s) /\ d = AccountConnConsumed(c, gap + k) OBVIOUS
  <2>5. /\ a \in Session /\ SendSame(x, a) /\ AdmitSame(x, a) /\ a.recv = x.recv
        /\ a.data.offset = x.data.offset + gap /\ a.data.consumed = x.data.consumed /\ a.data.max = x.data.max
    BY <1>4, <2>2, SeenTailDoes
  <2>6. /\ b \in Session /\ SendSame(a, b) /\ AdmitSame(a, b) /\ b.data = a.data
        /\ k \in Nat /\ InQueues(b) = InQueues(a) - k
    <3>1. k = Discarded(a, s) BY <2>3, <2>5 DEF Discarded
    <3>. QED BY <2>3, <2>5, <3>1, ErroredDoes
  <2>7. SendSame(x, b) /\ AdmitSame(x, b) BY <2>5, <2>6, SameIsTransitive
  <2>8. SendInv(b, p) /\ AdmitInv(b, h, l) BY <2>6, <2>7, SendInvKept, AdmitInvKept DEF EndInv
  <2>9. b.me = x.me /\ b.closed = "open" /\ s \in b.recvStreams BY <1>8, <2>1, <2>7 DEF AdmitSame
  <2>10. /\ c \in Session /\ c.me = b.me /\ c.closed = "open" /\ DataSame(b, c)
         /\ SendInv(c, p) /\ AdmitInv(c, h, l) /\ c.recv[s].terminal BY <2>4, <2>6, <2>8, <2>9, NotifyStep
  <2>11. c.data.offset - InQueues(c) = (x.data.offset - InQueues(x)) + (gap + k) /\ gap + k \in Nat
    <3>1. InQueues(c) = InQueues(b) BY <2>10 DEF DataSame, InQueues, Buffered
    <3>2. InQueues(a) = InQueues(x) BY <2>5 DEF InQueues
    <3>3. c.data.offset = x.data.offset + gap BY <2>5, <2>6, <2>10 DEF DataSame
    <3>. QED BY <1>4, <2>6, <3>1, <3>2, <3>3, MissingType
  <2>12. x.closed = c.closed /\ c.data.consumed = x.data.consumed /\ c.data.max = x.data.max
    BY <2>1, <2>5, <2>6, <2>10 DEF DataSame
  <2>13. /\ d \in Session /\ SendSame(c, d) /\ AdmitSame(c, d) /\ d.recv = c.recv /\ (DataInv(x) => DataInv(d))
    BY <2>4, <2>10, <2>11, <2>12, AccountedDoes
  <2>14. SendInv(d, p) /\ AdmitInv(d, h, l) BY <2>10, <2>13, SendInvKept, AdmitInvKept
  <2>15. d.me = x.me /\ d.closed = "open" BY <2>9, <2>10, <2>13 DEF AdmitSame
  <2>16. EndInv(d, p, h, l) BY <2>1, <2>13, <2>14, <2>15 DEF EndInv
  <2>17. y = MaybeDeleteStreamFlow(Left(d, s), s) BY <1>8, <2>2, <2>3, <2>4
  <2>. QED BY <2>10, <2>13, <2>15, <2>16, <2>17, LeaveStep
<1>9. CASE /\ s.by # x.me /\ ~IsClosed(x, s) /\ ~(s.index + 1 > x.quota[s.dir].max)
           /\ y = ReplenishStreamCredit(Recorded(AccountConnConsumed(ChargeConn(x, gap), gap), s), s.dir)
  <2>1. PICK a : a = ChargeConn(x, gap) OBVIOUS
  <2>2. PICK b : b = AccountConnConsumed(a, gap) OBVIOUS
  <2>3. /\ a \in Session /\ SendSame(x, a) /\ AdmitSame(x, a) /\ a.recv = x.recv
        /\ a.data.offset = x.data.offset + gap /\ a.data.consumed = x.data.consumed /\ a.data.max = x.data.max
    <3>1. gap \in Int BY <1>4
    <3>. QED BY <2>1, <3>1, ChargeConnDoes, ZenonT(60)
  <2>4. b \in Session /\ AdmitSame(x, b) /\ EndInv(b, p, h, l) BY <1>4, <2>2, <2>3, SkippedStep
  <2>5. b.me = x.me /\ b.recorded = x.recorded /\ b.quota = x.quota BY <2>4 DEF AdmitSame
  <2>6. Enters(b, s)
    <3>1. s.index \in Int /\ s.dir \in Dirs BY JsAssumption
    <3>2. x.quota[s.dir].max \in Int BY <3>1 DEF Session, Quota
    <3>. QED BY <1>9, <2>5, <3>1, <3>2 DEF Enters, IsClosed
  <2>7. y = ReplenishStreamCredit(Recorded(b, s), s.dir) BY <1>9, <2>1, <2>2
  <2>. QED BY <2>4, <2>5, <2>6, <2>7, UnseenStep
<1>. QED BY <1>5, <1>6, <1>7, <1>8, <1>9

\* A frame of the peer.
LEMMA RecvFrameStep ==
  ASSUME NEW x \in Session, NEW p \in Int, NEW h, NEW l \in Int, EndInv(x, p, h, l), plan.limit \in Int,
         NEW f \in Frame, NEW y, y = RecvFrame(x, f)
  PROVE  y \in Session /\ y.me = x.me /\ EndInv(y, p, h, l)
<1>0. SendInv(x, p) /\ (x.closed = "open" => p >= 0) BY DEF EndInv
<1>1. \/ f.type = "params" \/ f.type = "stream" \/ f.type = "reset" \/ f.type = "stop" \/ f.type = "max_data"
      \/ f.type = "max_stream_data" \/ f.type = "max_streams" \/ f.type = "app_close" \/ f.type = "connection_close"
  BY DEF Frame
<1>2. /\ f.type \in {"stream", "reset", "stop", "max_stream_data"} => f.id \in StreamIds
      /\ f.type = "stream" => f.n \in Nat /\ f.fin \in BOOLEAN
      /\ f.type = "reset" => f.size \in Int
      /\ f.type \in {"max_data", "max_streams", "max_stream_data"} => f.max \in Int
      /\ f.type = "max_streams" => f.dir \in Dirs BY FrameFields
<1>3. CASE f.type = "params"
  <2>1. y = HandleTransportParameters(x) BY <1>3 DEF RecvFrame
  <2>2. y \in Session /\ RecvSame(x, y) /\ SendInv(y, p) BY <1>0, <2>1, ParamsStep
  <2>. QED BY <1>0, <2>2, EndInvKept
<1>4. CASE f.type = "stream"
  <2>1. y = HandleStreamFrame(x, f) BY <1>4 DEF RecvFrame
  <2>. QED BY <1>2, <1>4, <2>1, StreamFrameStep
<1>5. CASE f.type = "reset"
  <2>1. y = HandleResetStream(x, f) BY <1>5 DEF RecvFrame
  <2>. QED BY <1>2, <1>5, <2>1, ResetStep
<1>6. CASE f.type = "stop"
  <2>1. y = HandleStopSending(x, f) BY <1>6 DEF RecvFrame
  <2>2. y \in Session /\ RecvSame(x, y) /\ SendInv(y, p) BY <1>0, <1>2, <1>6, <2>1, StopStep
  <2>. QED BY <1>0, <2>2, EndInvKept
<1>7. CASE f.type = "max_data"
  <2>1. y = IncreaseConn(x, f.max) BY <1>7 DEF RecvFrame
  <2>2. y \in Session /\ RecvSame(x, y) /\ SendInv(y, p) BY <1>0, <1>2, <1>7, <2>1, MaxDataStep
  <2>. QED BY <1>0, <2>2, EndInvKept
<1>8. CASE f.type = "max_stream_data"
  <2>1. y = IncreaseStream(x, f.id, f.max) BY <1>8 DEF RecvFrame
  <2>2. y \in Session /\ RecvSame(x, y) /\ SendInv(y, p) BY <1>0, <1>2, <1>8, <2>1, MaxStreamDataStep
  <2>. QED BY <1>0, <2>2, EndInvKept
<1>9. CASE f.type = "max_streams"
  <2>1. y = IncreaseOpens(x, f.dir, f.max) BY <1>9 DEF RecvFrame
  <2>2. y \in Session /\ RecvSame(x, y) /\ SendSame(x, y) BY <1>2, <1>9, <2>1, MaxStreamsStep
  <2>3. SendInv(y, p) BY <1>0, <2>2, SendInvKept
  <2>. QED BY <1>0, <2>2, <2>3, EndInvKept
<1>10. CASE f.type = "app_close"
  <2>1. y = EndSession(x, "fulfilled") BY <1>10 DEF RecvFrame
  <2>. QED BY <2>1, EndStep
<1>11. CASE f.type = "connection_close"
  <2>1. y = EndSession(x, "rejected") BY <1>11 DEF RecvFrame
  <2>. QED BY <2>1, EndStep
<1>. QED BY <1>1, <1>3, <1>4, <1>5, <1>6, <1>7, <1>8, <1>9, <1>10, <1>11

CreatedAs(x, s, O, N, v, w, R, r) ==
  [x EXCEPT !.opens = O, !.next = N, !.streamFlow = x.streamFlow \cup {s}, !.flow[s] = v,
            !.sendStreams = x.sendStreams \cup {s}, !.writer[s] = w, !.recvStreams = R, !.recv[s] = r]
Created(x, s) ==
  LET bi == s.dir = "bi" IN
  [x EXCEPT
     !.opens[s.dir].used = @ + 1, !.next[s.dir] = @ + 1,
     !.streamFlow = @ \cup {s},
     !.flow[s] = [NoFlow EXCEPT !.max = IF x.params THEN StreamWindow ELSE 0,
                                !.recvMax = IF bi THEN StreamWindow ELSE 0],
     !.sendStreams = @ \cup {s}, !.writer[s].at = "idle",
     !.recvStreams = IF bi THEN @ \cup {s} ELSE @,
     !.recv[s].accepted = bi]

CreatedParts(x, s, O, N, v, w, R, r) ==
  /\ O \in [Dirs -> CreditRecord] /\ N \in [Dirs -> Nat] /\ v \in Flow /\ w \in Writer /\ R \in SUBSET StreamIds /\ r \in Recv
  /\ N[s.dir] = x.next[s.dir] + 1 /\ \A d \in Dirs : x.next[d] <= N[d]
  /\ w.at = "idle" /\ w.held = x.writer[s].held
  /\ (\A t : t # s => (t \in R <=> t \in x.recvStreams)) /\ (r.accepted => s \in R)
  /\ r.queue = x.recv[s].queue

\* Opening a stream, with the parts of the new session named.
LEMMA CreatedIs ==
  ASSUME NEW x \in Session, NEW s \in StreamIds, NEW y, y = Created(x, s)
  PROVE  \E O, N, v, w, R, r : CreatedParts(x, s, O, N, v, w, R, r) /\ y = CreatedAs(x, s, O, N, v, w, R, r)
<1>1. s.dir \in Dirs /\ s.index \in Nat BY JsAssumption
<1>2. /\ x.opens \in [Dirs -> CreditRecord] /\ x.opens[s.dir] \in CreditRecord
      /\ x.next \in [Dirs -> Nat] /\ x.next[s.dir] \in Nat BY <1>1 DEF Session
<1>3. PICK c : c = [x.opens[s.dir] EXCEPT !.used = @ + 1] OBVIOUS
<1>4. c \in CreditRecord BY <1>2, <1>3 DEF CreditRecord
<1>5. PICK O : O = [x.opens EXCEPT ![s.dir] = c] OBVIOUS
<1>6. O \in [Dirs -> CreditRecord] BY <1>1, <1>2, <1>4, <1>5
<1>7. PICK N : N = [x.next EXCEPT ![s.dir] = @ + 1] OBVIOUS
<1>8. N \in [Dirs -> Nat] /\ N[s.dir] = x.next[s.dir] + 1 /\ \A d \in Dirs : x.next[d] <= N[d] BY <1>1, <1>2, <1>7
<1>9. PICK m, k : m = (IF x.params THEN StreamWindow ELSE 0) /\ k = (IF s.dir = "bi" THEN StreamWindow ELSE 0) OBVIOUS
<1>10. m \in Int /\ k \in Int BY <1>9, JsAssumption
<1>11. PICK v : v = [NoFlow EXCEPT !.max = m, !.recvMax = k] OBVIOUS
<1>12. v \in Flow
  <2>1. PICK f \in BOOLEAN : f = FALSE OBVIOUS
  <2>2. PICK z \in Int : z = 0 OBVIOUS
  <2>3. NoFlow = [max |-> z, used |-> z, shut |-> f, sendOffset |-> z, recvMax |-> z, recvOffset |-> z, recvConsumed |-> z]
    BY <2>1, <2>2 DEF NoFlow
  <2>4. NoFlow \in Flow BY <2>3 DEF Flow
  <2>. QED BY <1>10, <1>11, <2>4 DEF Flow
<1>13. PICK R : R = IF s.dir = "bi" THEN x.recvStreams \cup {s} ELSE x.recvStreams OBVIOUS
<1>14. R \in SUBSET StreamIds /\ (\A t : t # s => (t \in R <=> t \in x.recvStreams)) /\ (s.dir = "bi" => s \in R)
  BY <1>13 DEF Session
<1>15. PICK i \in Phases : i = "idle" BY DEF Phases
<1>16. x.writer[s] \in Writer /\ x.recv[s] \in Recv BY DEF Session
<1>17. PICK w : w = [x.writer[s] EXCEPT !.at = i] OBVIOUS
<1>18. w \in Writer /\ w.at = i /\ w.held = x.writer[s].held BY <1>16, <1>17 DEF Writer
<1>19. PICK b \in BOOLEAN : b = (s.dir = "bi") OBVIOUS
<1>20. PICK r : r = [x.recv[s] EXCEPT !.accepted = b] OBVIOUS
<1>21. r \in Recv /\ r.accepted = b /\ r.queue = x.recv[s].queue BY <1>16, <1>20 DEF Recv
<1>22. y = CreatedAs(x, s, O, N, v, w, R, r)
  BY <1>3, <1>5, <1>7, <1>9, <1>11, <1>13, <1>15, <1>17, <1>19, <1>20 DEF Created, CreatedAs, Session
<1>23. r.accepted => s \in R BY <1>14, <1>19, <1>21
<1>24. w.at = "idle" BY <1>15, <1>18
<1>25. /\ N[s.dir] = x.next[s.dir] + 1 /\ (\A d \in Dirs : x.next[d] <= N[d])
       /\ w.at = "idle" /\ w.held = x.writer[s].held
       /\ (\A t : t # s => (t \in R <=> t \in x.recvStreams)) /\ (r.accepted => s \in R)
       /\ r.queue = x.recv[s].queue BY <1>8, <1>14, <1>18, <1>21, <1>23, <1>24
<1>26. /\ O \in [Dirs -> CreditRecord] /\ N \in [Dirs -> Nat] /\ v \in Flow /\ w \in Writer /\ R \in SUBSET StreamIds /\ r \in Recv
  BY <1>6, <1>8, <1>12, <1>14, <1>18, <1>21
<1>27. CreatedParts(x, s, O, N, v, w, R, r) BY <1>25, <1>26 DEF CreatedParts
<1>. QED BY <1>22, <1>27

\* What opening a stream changes.
LEMMA CreatedAsDoes ==
  ASSUME NEW x \in Session, NEW s \in StreamIds, NEW O, NEW N, NEW v, NEW w, NEW R, NEW r,
         CreatedParts(x, s, O, N, v, w, R, r), NEW y, y = CreatedAs(x, s, O, N, v, w, R, r)
  PROVE  /\ y \in Session /\ y.me = x.me /\ y.closed = x.closed /\ y.conn = x.conn /\ y.ready = x.ready
         /\ y.inflight = x.inflight /\ y.next = N /\ y.quota = x.quota /\ y.data = x.data
         /\ y.pending = x.pending /\ y.recorded = x.recorded /\ y.recvStreams = R
         /\ y.writer[s] = w /\ (\A t \in StreamIds : t # s => y.writer[t] = x.writer[t] /\ y.flow[t] = x.flow[t])
         /\ y.recv[s] = r /\ \A t \in StreamIds : t # s => y.recv[t] = x.recv[t]
<1>0. O \in [Dirs -> CreditRecord] /\ N \in [Dirs -> Nat] /\ v \in Flow /\ w \in Writer /\ R \in SUBSET StreamIds /\ r \in Recv
  BY DEF CreatedParts
<1>1. PICK F, W, V : F = [x.flow EXCEPT ![s] = v] /\ W = [x.writer EXCEPT ![s] = w] /\ V = [x.recv EXCEPT ![s] = r]
  OBVIOUS
<1>3. x.flow \in [StreamIds -> Flow] /\ x.writer \in [StreamIds -> Writer] /\ x.recv \in [StreamIds -> Recv]
  BY DEF Session
<1>4. F \in [StreamIds -> Flow] /\ \A t \in StreamIds : t # s => F[t] = x.flow[t] BY <1>0, <1>1, <1>3
<1>5. W \in [StreamIds -> Writer] /\ W[s] = w /\ \A t \in StreamIds : t # s => W[t] = x.writer[t] BY <1>0, <1>1, <1>3
<1>2. V \in [StreamIds -> Recv] /\ V[s] = r /\ \A t \in StreamIds : t # s => V[t] = x.recv[t] BY <1>0, <1>1, <1>3
<1>6. PICK a, b : a = x.sendStreams \cup {s} /\ b = x.streamFlow \cup {s} OBVIOUS
<1>7. a \in SUBSET StreamIds /\ b \in SUBSET StreamIds BY <1>6 DEF Session
<1>8. PICK u : u = [x EXCEPT !.opens = O, !.next = N, !.streamFlow = b] OBVIOUS
<1>9. y = [u EXCEPT !.flow = F, !.sendStreams = a, !.writer = W, !.recvStreams = R, !.recv = V]
  BY <1>1, <1>6, <1>8 DEF CreatedAs, Session
<1>10. /\ u \in Session /\ u.me = x.me /\ u.closed = x.closed /\ u.conn = x.conn /\ u.ready = x.ready
       /\ u.inflight = x.inflight /\ u.next = N /\ u.quota = x.quota /\ u.data = x.data
       /\ u.pending = x.pending /\ u.recorded = x.recorded BY <1>0, <1>7, <1>8 DEF Session
<1>11. y \in Session
  <2>1. u \in Session /\ F \in [StreamIds -> Flow] /\ W \in [StreamIds -> Writer] /\ V \in [StreamIds -> Recv]
    BY <1>2, <1>4, <1>5, <1>10
  <2>2. PICK z : z = [u EXCEPT !.flow = F, !.sendStreams = a, !.writer = W] OBVIOUS
  <2>3. z \in Session BY <1>7, <2>1, <2>2 DEF Session
  <2>4. y = [z EXCEPT !.recvStreams = R, !.recv = V] BY <1>9, <2>1, <2>2 DEF Session
  <2>. QED BY <1>0, <2>1, <2>3, <2>4 DEF Session
<1>12. /\ y.me = u.me /\ y.closed = u.closed /\ y.conn = u.conn /\ y.ready = u.ready
       /\ y.inflight = u.inflight /\ y.next = u.next /\ y.quota = u.quota /\ y.data = u.data
       /\ y.pending = u.pending /\ y.recorded = u.recorded /\ y.recvStreams = R
       /\ y.writer = W /\ y.flow = F /\ y.recv = V BY <1>9, <1>10 DEF Session
<1>. QED BY <1>2, <1>4, <1>5, <1>10, <1>11, <1>12

\* createBidirectionalStream, createUnidirectionalStream.
LEMMA CreateStep ==
  ASSUME NEW x \in Session, NEW p \in Int, NEW h, NEW l, EndInv(x, p, h, l), NEW s \in StreamIds,
         x.closed = "open", s.by = x.me, s.index = x.next[s.dir], NEW y, y = Created(x, s)
  PROVE  y \in Session /\ y.me = x.me /\ EndInv(y, p, h, l)
<1>0. SendInv(x, p) /\ DataInv(x) /\ AdmitInv(x, h, l) /\ p >= 0 BY DEF EndInv
<1>2. PICK O, N, v, w, R, r : CreatedParts(x, s, O, N, v, w, R, r) /\ y = CreatedAs(x, s, O, N, v, w, R, r) BY CreatedIs
<1>1. /\ N[s.dir] = x.next[s.dir] + 1 /\ \A d \in Dirs : x.next[d] <= N[d]
      /\ w.at = "idle" /\ w.held = x.writer[s].held
      /\ (\A t : t # s => (t \in R <=> t \in x.recvStreams)) /\ (r.accepted => s \in R)
      /\ r.queue = x.recv[s].queue BY <1>2 DEF CreatedParts
<1>3. /\ y \in Session /\ y.me = x.me /\ y.closed = x.closed /\ y.conn = x.conn /\ y.ready = x.ready
      /\ y.inflight = x.inflight /\ y.next = N /\ y.quota = x.quota /\ y.data = x.data
      /\ y.pending = x.pending /\ y.recorded = x.recorded /\ y.recvStreams = R
      /\ y.writer[s] = w /\ (\A t \in StreamIds : t # s => y.writer[t] = x.writer[t] /\ y.flow[t] = x.flow[t])
      /\ y.recv[s] = r /\ \A t \in StreamIds : t # s => y.recv[t] = x.recv[t] BY <1>2, CreatedAsDoes
<1>4. s.index \in Int /\ s.dir \in Dirs /\ x.next[s.dir] \in Int BY JsAssumption DEF Session
<1>5. x.writer[s].at = "none"
  <2>1. Named(x) BY <1>0 DEF SendInv
  <2>. QED BY <1>4, <2>1 DEF Named
<1>6. SendInv(y, p)
  <2>1. \A d \in Dirs : x.next[d] <= y.next[d] BY <1>1, <1>3
  <2>2. s.index < y.next[s.dir] BY <1>1, <1>3, <1>4
  <2>3. y.writer[s].at \in {"none", "idle"} /\ y.writer[s].held = x.writer[s].held BY <1>1, <1>3
  <2>4. x.recorded \subseteq y.recorded BY <1>3
  <2>. QED BY <1>0, <1>3, <1>5, <2>1, <2>2, <2>3, <2>4, OpenedKeeps
<1>7. DataInv(y)
  <2>1. DataSame(x, y) BY <1>1, <1>3 DEF DataSame
  <2>. QED BY <1>0, <2>1, DataInvKept
<1>8. Seen(x) /\ Waiting(x, h) /\ Slots(x, l) BY <1>0 DEF AdmitInv
<1>9. s \notin x.recorded /\ x.recorded \in SUBSET StreamIds BY <1>8 DEF Seen, Session
<1>10. \A t \in StreamIds : t # s => /\ y.recv[t] = x.recv[t] /\ (t \in y.recvStreams <=> t \in x.recvStreams)
  BY <1>1, <1>3
<1>11. Seen(y)
  <2>1. \A t \in y.recorded : t.by # y.me /\ t.index < y.quota[t.dir].max BY <1>3, <1>8 DEF Seen
  <2>2. \A t \in StreamIds : LET u == y.recv[t] IN t.by # y.me =>
       /\ t \in y.recvStreams \/ u.accepted \/ u.terminal \/ u.replenished => t \in y.recorded
       /\ u.replenished => u.accepted /\ u.terminal BY <1>3, <1>8, <1>10 DEF Seen
  <2>3. \A t \in StreamIds : y.recv[t].accepted => t \in y.recvStreams \/ y.recv[t].terminal
    <3>. SUFFICES ASSUME NEW t \in StreamIds, y.recv[t].accepted PROVE t \in y.recvStreams \/ y.recv[t].terminal OBVIOUS
    <3>1. CASE t = s BY <1>1, <1>3, <3>1
    <3>2. CASE t # s BY <1>8, <1>10, <3>2 DEF Seen
    <3>. QED BY <3>1, <3>2
  <2>. QED BY <2>1, <2>2, <2>3 DEF Seen
<1>12. \A t \in x.recorded : y.recv[t] = x.recv[t] /\ (t \in y.recvStreams <=> t \in x.recvStreams) BY <1>9, <1>10
<1>13. Waiting(y, h) BY <1>3, <1>8, <1>12 DEF Waiting
<1>14. Slots(y, l)
  <2>1. \A d \in Dirs : Freed(y, d) = Freed(x, d)
    <3>. TAKE d \in Dirs
    <3>1. \A t : t \in Freed(y, d) <=> t \in Freed(x, d) BY <1>3, <1>12 DEF Freed
    <3>. QED BY <3>1
  <2>. QED BY <1>3, <1>8, <2>1 DEF Slots
<1>15. AdmitInv(y, h, l) BY <1>0, <1>3, <1>11, <1>13, <1>14, AdmitFrom
<1>. QED BY <1>0, <1>3, <1>6, <1>7, <1>15 DEF EndInv

\* Bytes left a queue and are counted as consumed.
LEMMA DeliveredStep ==
  ASSUME NEW x \in Session, NEW p \in Int, NEW h, NEW l, EndInv(x, p, h, l), NEW n \in Nat,
         NEW b \in Session, SendSame(x, b), AdmitSame(x, b), b.data = x.data, InQueues(b) = InQueues(x) - n,
         NEW y, y = AccountConnConsumed(b, n)
  PROVE  y \in Session /\ y.me = x.me /\ EndInv(y, p, h, l)
<1>0. SendInv(x, p) /\ DataInv(x) /\ AdmitInv(x, h, l) /\ (x.closed = "open" => p >= 0) BY DEF EndInv
<1>18. b.data.offset - InQueues(b) = (x.data.offset - InQueues(x)) + n /\ x.closed = b.closed
  BY MissingType DEF AdmitSame
<1>19. y \in Session /\ SendSame(b, y) /\ AdmitSame(b, y) /\ DataInv(y) BY <1>0, <1>18, AccountedDoes
<1>29. SendSame(x, y) /\ AdmitSame(x, y) BY <1>19, SameIsTransitive
<1>30. SendInv(y, p) /\ AdmitInv(y, h, l) BY <1>0, <1>19, <1>29, SendInvKept, AdmitInvKept
<1>31. y.me = x.me /\ y.closed = x.closed BY <1>29 DEF AdmitSame
<1>. QED BY <1>0, <1>19, <1>30, <1>31 DEF EndInv

Popped(x, s) == [x EXCEPT !.recv[s].queue = Tail(@)]

\* A readable is read.
LEMMA ReadStep ==
  ASSUME NEW x \in Session, NEW p \in Int, NEW h, NEW l, EndInv(x, p, h, l), NEW s \in StreamIds,
         x.recv[s].queue # <<>>, NEW n, n = Head(x.recv[s].queue),
         NEW y, y = AccountConnConsumed(AccountStreamConsumed(Popped(x, s), s, n), n)
  PROVE  y \in Session /\ y.me = x.me /\ EndInv(y, p, h, l) /\ n \in Nat
<1>0. SendInv(x, p) /\ DataInv(x) /\ AdmitInv(x, h, l) /\ (x.closed = "open" => p >= 0) BY DEF EndInv
<1>1. x.recv \in [StreamIds -> Recv] /\ x.recv[s] \in Recv /\ x.recv[s].queue \in Seq(Nat) BY DEF Session, Recv
<1>2. PICK q : q = Tail(x.recv[s].queue) OBVIOUS
<1>3. q \in Seq(Nat) /\ n \in Nat BY <1>1, <1>2
<1>4. PICK r : r = [x.recv[s] EXCEPT !.queue = q] OBVIOUS
<1>5. r \in Recv /\ r.queue = q /\ r.accepted = x.recv[s].accepted
      /\ r.replenished = x.recv[s].replenished /\ r.terminal = x.recv[s].terminal BY <1>1, <1>3, <1>4 DEF Recv
<1>6. PICK R : R = [x.recv EXCEPT ![s] = r] OBVIOUS
<1>7. R \in [StreamIds -> Recv] /\ R[s] = r /\ \A u \in StreamIds : u # s => R[u] = x.recv[u] BY <1>1, <1>5, <1>6
<1>8. PICK a : a = Popped(x, s) OBVIOUS
<1>9. a = [x EXCEPT !.recv = R] BY <1>2, <1>4, <1>6, <1>8 DEF Popped
<1>10. /\ a \in Session /\ a.me = x.me /\ a.closed = x.closed /\ a.recorded = x.recorded /\ a.pending = x.pending
       /\ a.quota = x.quota /\ a.recv = R /\ a.recvStreams = x.recvStreams /\ a.data = x.data BY <1>7, <1>9 DEF Session
<1>11. SendSame(x, a) BY <1>9 DEF Session, SendSame
<1>12. AdmitSame(x, a) BY <1>5, <1>7, <1>10 DEF AdmitSame
<1>13. Buffered(a.recv[s]) = Buffered(x.recv[s]) - n
  <2>1. x.recv[s].queue \in Seq(Int) BY <1>1
  <2>2. SumFunction(q) = SumFunction(x.recv[s].queue) - n BY <1>2, <2>1, SumTail
  <2>. QED BY <1>5, <1>7, <1>10, <2>2 DEF Buffered
<1>14. InQueues(a) = InQueues(x) + (Buffered(a.recv[s]) - Buffered(x.recv[s]))
  <2>1. \A t \in StreamIds : t # s => a.recv[t].queue = x.recv[t].queue BY <1>7, <1>10
  <2>. QED BY <1>10, <2>1, InQueuesMoves
<1>15. PICK b : b = AccountStreamConsumed(a, s, n) OBVIOUS
<1>16. b \in Session /\ SendSame(a, b) /\ RecvSame(a, b) BY <1>3, <1>10, <1>15, AccountStreamConsumedDoes
<1>17. b.data = x.data /\ InQueues(b) = InQueues(a)
  <2>1. \A t \in StreamIds : b.recv[t].queue = a.recv[t].queue BY <1>16 DEF RecvSame, DataSame
  <2>2. [t \in StreamIds |-> Buffered(b.recv[t])] = [t \in StreamIds |-> Buffered(a.recv[t])] BY <2>1 DEF Buffered
  <2>. QED BY <1>10, <1>16, <2>2 DEF RecvSame, DataSame, InQueues
<1>18. y = AccountConnConsumed(b, n) BY <1>8, <1>15
<1>19. InQueues(b) = InQueues(x) - n
  <2>1. InQueues(x) \in Int /\ Buffered(x.recv[s]) \in Int BY InQueuesType
  <2>. QED BY <1>3, <1>13, <1>14, <1>17, <2>1
<1>20. SendSame(x, b) /\ AdmitSame(x, b) BY <1>11, <1>12, <1>16, SameIsTransitive DEF RecvSame
<1>. QED BY <1>3, <1>16, <1>17, <1>18, <1>19, <1>20, DeliveredStep

Handing(x, d, s) == [[x EXCEPT !.pending[d] = Tail(@)] EXCEPT !.recv[s].accepted = TRUE]

\* What handing out a stream changes, before its slot is looked at.
LEMMA HandingDoes ==
  ASSUME NEW x \in Session, NEW d \in Dirs, NEW s \in StreamIds, NEW y, y = Handing(x, d, s), x.pending[d] # <<>>
  PROVE  /\ y \in Session /\ SendSame(x, y) /\ DataSame(x, y)
         /\ y.me = x.me /\ y.closed = x.closed /\ y.recorded = x.recorded /\ y.quota = x.quota
         /\ y.recvStreams = x.recvStreams
         /\ y.pending[d] = Tail(x.pending[d]) /\ (\A c \in Dirs : c # d => y.pending[c] = x.pending[c])
         /\ \A t \in StreamIds : /\ y.recv[t].terminal = x.recv[t].terminal
                                 /\ y.recv[t].replenished = x.recv[t].replenished
                                 /\ t # s => y.recv[t].accepted = x.recv[t].accepted
         /\ y.recv[s].accepted
<1>1. x.pending \in [Dirs -> Seq(StreamIds)] /\ x.pending[d] \in Seq(StreamIds)
      /\ x.recv \in [StreamIds -> Recv] /\ x.recv[s] \in Recv BY DEF Session
<1>2. PICK q : q = Tail(x.pending[d]) OBVIOUS
<1>3. q \in Seq(StreamIds) BY <1>1, <1>2
<1>4. PICK P : P = [x.pending EXCEPT ![d] = q] OBVIOUS
<1>5. P \in [Dirs -> Seq(StreamIds)] /\ P[d] = q /\ \A c \in Dirs : c # d => P[c] = x.pending[c] BY <1>1, <1>3, <1>4
<1>6. PICK b \in BOOLEAN : b = TRUE OBVIOUS
<1>7. PICK r : r = [x.recv[s] EXCEPT !.accepted = b] OBVIOUS
<1>8. r \in Recv /\ r.queue = x.recv[s].queue /\ r.accepted = b
      /\ r.replenished = x.recv[s].replenished /\ r.terminal = x.recv[s].terminal BY <1>1, <1>7 DEF Recv
<1>9. PICK R : R = [x.recv EXCEPT ![s] = r] OBVIOUS
<1>10. R \in [StreamIds -> Recv] /\ R[s] = r /\ \A u \in StreamIds : u # s => R[u] = x.recv[u] BY <1>1, <1>8, <1>9
<1>11. y = [x EXCEPT !.pending = P, !.recv = R] BY <1>2, <1>4, <1>6, <1>7, <1>9 DEF Handing, Session
<1>12. /\ y \in Session /\ y.me = x.me /\ y.closed = x.closed /\ y.recorded = x.recorded /\ y.pending = P
       /\ y.quota = x.quota /\ y.recv = R /\ y.recvStreams = x.recvStreams /\ y.data = x.data
  BY <1>5, <1>10, <1>11 DEF Session
<1>13. SendSame(x, y) BY <1>11 DEF Session, SendSame
<1>14. DataSame(x, y) BY <1>8, <1>10, <1>12 DEF DataSame
<1>15. \A t \in StreamIds : /\ y.recv[t].terminal = x.recv[t].terminal /\ y.recv[t].replenished = x.recv[t].replenished
                            /\ t # s => y.recv[t].accepted = x.recv[t].accepted BY <1>8, <1>10, <1>12
<1>16. y.recv[s].accepted BY <1>6, <1>8, <1>10, <1>12
<1>. QED BY <1>2, <1>5, <1>12, <1>13, <1>14, <1>15, <1>16

\* A stream that was not handed out before may be.
LEMMA InjectiveAppend ==
  ASSUME NEW S, NEW h \in Seq(S), IsInjective(h), NEW s \in S, \A i \in DOMAIN h : h[i] # s
  PROVE  /\ IsInjective(Append(h, s)) /\ Append(h, s) \in Seq(S)
         /\ \A i \in DOMAIN Append(h, s) : Append(h, s)[i] = s \/ \E j \in DOMAIN h : Append(h, s)[i] = h[j]
<1>1. PICK g, n : g = Append(h, s) /\ n = Len(h) OBVIOUS
<1>2. n \in Nat /\ g \in Seq(S) /\ DOMAIN h = 1..n /\ DOMAIN g = 1..n+1 /\ g[n+1] = s /\ \A i \in 1..n : g[i] = h[i]
  BY <1>1
<1>3. \A i, j \in 1..n : h[i] = h[j] => i = j BY <1>2 DEF IsInjective
<1>4. \A i, j \in 1..n+1 : g[i] = g[j] => i = j BY <1>2, <1>3
<1>5. IsInjective(g) BY <1>2, <1>4 DEF IsInjective
<1>6. \A i \in DOMAIN g : g[i] = s \/ \E j \in DOMAIN h : g[i] = h[j] BY <1>2
<1>. QED BY <1>1, <1>2, <1>5, <1>6

Fit(x, h, c, t) ==
  /\ t \in x.recorded /\ t.dir = c /\ ~x.recv[t].accepted
  /\ t \in x.recvStreams \/ x.recv[t].terminal
  /\ \A j \in DOMAIN h : h[j] # t

\* Waiting, stream by stream.
LEMMA WaitingIs ==
  ASSUME NEW x, NEW h
  PROVE  Waiting(x, h) <=> \A c \in Dirs : /\ \A i, j \in DOMAIN x.pending[c] : x.pending[c][i] = x.pending[c][j] => i = j
                                           /\ \A i \in DOMAIN x.pending[c] : Fit(x, h, c, x.pending[c][i])
BY DEF Waiting, Fit

\* y is x with s handed out.
HandedOut(x, y, d, s) ==
  /\ y.me = x.me /\ y.closed = x.closed /\ y.recorded = x.recorded /\ y.recvStreams = x.recvStreams
  /\ y.pending[d] = Tail(x.pending[d]) /\ (\A c \in Dirs : c # d => y.pending[c] = x.pending[c])
  /\ \A t \in StreamIds : /\ y.recv[t].terminal = x.recv[t].terminal
                          /\ t # s => /\ y.recv[t].accepted = x.recv[t].accepted
                                      /\ y.recv[t].replenished = x.recv[t].replenished
  /\ y.recv[s].accepted
  /\ \/ y.quota = x.quota /\ ~y.recv[s].replenished
     \/ x.recv[s].terminal /\ Replenished(x, y, s.dir) /\ y.recv[s].replenished

\* A stream leaves its queue for the application, perhaps with its slot.
LEMMA HandedOutKeeps ==
  ASSUME NEW x \in Session, NEW y \in Session, NEW h \in Seq(StreamIds), NEW l \in Int, AdmitInv(x, h, l), x.closed = "open",
         NEW d \in Dirs, NEW s \in StreamIds, Fit(x, h, d, s), ~x.recv[s].replenished, HandedOut(x, y, d, s),
         NEW q \in Seq(StreamIds), q # <<>>, x.pending[d] = q, q[1] = s, NEW g, g = Append(h, s)
  PROVE  AdmitInv(y, g, l)
<1>1. Seen(x) /\ Waiting(x, h) /\ Slots(x, l) /\ IsInjective(h) /\ \A i \in DOMAIN h : h[i] \in x.recorded
  BY DEF AdmitInv
<1>2. y.me = x.me /\ y.closed = x.closed /\ y.recorded = x.recorded /\ y.recvStreams = x.recvStreams BY DEF HandedOut
<1>3. \A t \in StreamIds : /\ y.recv[t].terminal = x.recv[t].terminal
                           /\ t # s => /\ y.recv[t].accepted = x.recv[t].accepted
                                       /\ y.recv[t].replenished = x.recv[t].replenished BY DEF HandedOut
<1>4. y.recv[s].accepted BY DEF HandedOut
<1>5. \/ y.quota = x.quota /\ ~y.recv[s].replenished
      \/ x.recv[s].terminal /\ Replenished(x, y, s.dir) /\ y.recv[s].replenished BY DEF HandedOut
<1>6. s \in x.recorded /\ s.dir = d /\ s.dir \in Dirs /\ (s \in x.recvStreams \/ x.recv[s].terminal)
      /\ (\A j \in DOMAIN h : h[j] # s) BY DEF Fit
<1>7. x.recorded \in SUBSET StreamIds BY DEF Session
<1>8. Seen(y)
  <2>0. \A c \in Dirs : y.quota[c].max >= x.quota[c].max
    <3>1. \A c \in Dirs : x.quota[c].max \in Int BY DEF Session, Quota
    <3>2. CASE y.quota = x.quota BY <3>1, <3>2
    <3>3. CASE Replenished(x, y, s.dir) BY <1>6, <3>1, <3>3 DEF Replenished
    <3>. QED BY <1>5, <3>2, <3>3
  <2>1. \A t \in y.recorded : t.by # y.me /\ t.index < y.quota[t.dir].max
    <3>. SUFFICES ASSUME NEW t \in x.recorded PROVE t.by # x.me /\ t.index < y.quota[t.dir].max BY <1>2
    <3>1. t.index \in Int /\ t.dir \in Dirs BY <1>7, JsAssumption
    <3>2. x.quota[t.dir].max \in Int /\ y.quota[t.dir].max \in Int BY <3>1 DEF Session, Quota
    <3>3. y.quota[t.dir].max >= x.quota[t.dir].max BY <2>0, <3>1
    <3>4. t.by # x.me /\ t.index < x.quota[t.dir].max BY <1>1 DEF Seen
    <3>. QED BY <3>1, <3>2, <3>3, <3>4
  <2>2. ASSUME NEW t \in StreamIds, t.by # y.me
        PROVE  /\ t \in y.recvStreams \/ y.recv[t].accepted \/ y.recv[t].terminal \/ y.recv[t].replenished => t \in y.recorded
               /\ y.recv[t].replenished => y.recv[t].accepted /\ y.recv[t].terminal
    <3>1. CASE t = s BY <1>2, <1>3, <1>4, <1>5, <1>6, <3>1
    <3>2. CASE t # s BY <1>1, <1>2, <1>3, <2>2, <3>2 DEF Seen
    <3>. QED BY <3>1, <3>2
  <2>3. \A t \in StreamIds : y.recv[t].accepted => t \in y.recvStreams \/ y.recv[t].terminal
    BY <1>1, <1>2, <1>3, <1>6 DEF Seen
  <2>. QED BY <2>1, <2>2, <2>3 DEF Seen
<1>9. IsInjective(g) /\ g \in Seq(StreamIds) /\ \A i \in DOMAIN g : g[i] = s \/ \E j \in DOMAIN h : g[i] = h[j]
  BY <1>1, <1>6, InjectiveAppend
<1>10. Waiting(y, g)
  <2>1. \A c \in Dirs : /\ \A i, j \in DOMAIN x.pending[c] : x.pending[c][i] = x.pending[c][j] => i = j
                        /\ \A i \in DOMAIN x.pending[c] : Fit(x, h, c, x.pending[c][i]) BY <1>1, WaitingIs
  <2>2. ASSUME NEW c, NEW t, Fit(x, h, c, t), t # s PROVE Fit(y, g, c, t)
    <3>1. t \in x.recorded /\ t.dir = c /\ ~x.recv[t].accepted /\ (t \in x.recvStreams \/ x.recv[t].terminal)
          /\ (\A j \in DOMAIN h : h[j] # t) BY <2>2 DEF Fit
    <3>2. t \in StreamIds BY <1>7, <3>1
    <3>3. \A j \in DOMAIN g : g[j] # t BY <1>9, <2>2, <3>1
    <3>4. ~y.recv[t].accepted /\ y.recv[t].terminal = x.recv[t].terminal BY <1>3, <2>2, <3>1, <3>2
    <3>. QED BY <1>2, <3>1, <3>3, <3>4 DEF Fit
  <2>3. ASSUME NEW c \in Dirs
        PROVE  /\ \A i, j \in DOMAIN y.pending[c] : y.pending[c][i] = y.pending[c][j] => i = j
               /\ \A i \in DOMAIN y.pending[c] : Fit(y, g, c, y.pending[c][i])
    <3>1. CASE c # d
      <4>1. y.pending[c] = x.pending[c] BY <3>1 DEF HandedOut
      <4>2. \A i \in DOMAIN x.pending[c] : x.pending[c][i] # s BY <1>6, <2>1, <3>1 DEF Fit
      <4>. QED BY <2>1, <2>2, <4>1, <4>2
    <3>2. CASE c = d
      <4>1. PICK r, n : r = Tail(q) /\ n = Len(q) OBVIOUS
      <4>2. y.pending[c] = r /\ x.pending[c] = q BY <3>2, <4>1 DEF HandedOut
      <4>3. n \in Nat \ {0} /\ DOMAIN q = 1..n /\ DOMAIN r = 1..n-1 /\ \A i \in 1..n-1 : r[i] = q[i+1] BY <4>1
      <4>4. /\ \A i, j \in 1..n : q[i] = q[j] => i = j
            /\ \A i \in 1..n : Fit(x, h, c, q[i]) BY <2>1, <4>2, <4>3
      <4>5. \A i \in 1..n-1 : i + 1 \in 1..n /\ q[i+1] # s
        <5>. TAKE i \in 1..n-1
        <5>1. i + 1 \in 1..n /\ 1 \in 1..n /\ i + 1 # 1 BY <4>3
        <5>. QED BY <4>4, <5>1
      <4>6. \A i, j \in DOMAIN r : r[i] = r[j] => i = j
        <5>. SUFFICES ASSUME NEW i \in 1..n-1, NEW j \in 1..n-1, r[i] = r[j] PROVE i = j BY <4>3
        <5>1. q[i+1] = q[j+1] /\ i + 1 \in 1..n /\ j + 1 \in 1..n BY <4>3, <4>5
        <5>2. i + 1 = j + 1 BY <4>4, <5>1
        <5>. QED BY <4>3, <5>2
      <4>7. \A i \in DOMAIN r : Fit(x, h, c, r[i]) /\ r[i] # s BY <4>3, <4>4, <4>5
      <4>. QED BY <2>2, <4>2, <4>6, <4>7
    <3>. QED BY <3>1, <3>2
  <2>. QED BY <2>3, WaitingIs
<1>11. Slots(y, l)
  <2>1. \A c \in Dirs : \A t : t # s => (t \in Freed(y, c) <=> t \in Freed(x, c)) BY <1>2, <1>3, <1>7 DEF Freed
  <2>2. \A c \in Dirs : s \notin Freed(x, c) /\ (s \in Freed(y, c) <=> s.dir = c /\ y.recv[s].replenished)
    BY <1>2, <1>3, <1>6 DEF Freed
  <2>3. CASE y.quota = x.quota /\ ~y.recv[s].replenished
    <3>1. \A c \in Dirs : Freed(y, c) = Freed(x, c)
      <4>. TAKE c \in Dirs
      <4>1. \A t : t \in Freed(y, c) <=> t \in Freed(x, c) BY <2>1, <2>2, <2>3
      <4>. QED BY <4>1
    <3>. QED BY <1>1, <2>3, <3>1 DEF Slots
  <2>4. CASE x.recv[s].terminal /\ Replenished(x, y, s.dir) /\ y.recv[s].replenished
    <3>1. Freed(y, s.dir) = Freed(x, s.dir) \cup {s}
      <4>1. \A t : t \in Freed(y, s.dir) <=> t \in Freed(x, s.dir) \cup {s} BY <1>6, <2>1, <2>2, <2>4
      <4>. QED BY <4>1
    <3>2. \A c \in Dirs : c # s.dir => Freed(y, c) = Freed(x, c)
      <4>. SUFFICES ASSUME NEW c \in Dirs, c # s.dir PROVE Freed(y, c) = Freed(x, c) OBVIOUS
      <4>1. \A t : t \in Freed(y, c) <=> t \in Freed(x, c) BY <2>1, <2>2
      <4>. QED BY <4>1
    <3>3. s \notin Freed(x, s.dir) BY <1>6, <2>2
    <3>4. Slots(x, l) /\ s.dir \in Dirs /\ Replenished(x, y, s.dir) BY <1>1, <1>6, <2>4
    <3>. QED BY <3>1, <3>2, <3>3, <3>4, FreedGrows
  <2>. QED BY <1>5, <2>3, <2>4
<1>12. \A i \in DOMAIN g : g[i] \in y.recorded BY <1>1, <1>2, <1>6, <1>9
<1>13. \A c \in Dirs : y.quota[c].released >= 0 BY <1>11 DEF Slots
<1>. QED BY <1>2, <1>8, <1>9, <1>10, <1>11, <1>12, <1>13 DEF AdmitInv

\* The acceptor's read hands out the stream and replenishes at most its own slot.
LEMMA HandedOutDoes ==
  ASSUME NEW x \in Session, NEW d \in Dirs, NEW s \in StreamIds, x.pending[d] # <<>>,
         \A c \in Dirs : x.quota[c].released >= 0, s.by # x.me, ~x.recv[s].replenished,
         NEW y, y = MaybeReplenish(Handing(x, d, s), s)
  PROVE  y \in Session /\ SendSame(x, y) /\ DataSame(x, y) /\ HandedOut(x, y, d, s)
<1>8. PICK z : z = Handing(x, d, s) OBVIOUS
<1>9. /\ z \in Session /\ SendSame(x, z) /\ DataSame(x, z)
      /\ z.me = x.me /\ z.closed = x.closed /\ z.recorded = x.recorded /\ z.quota = x.quota
      /\ z.recvStreams = x.recvStreams
      /\ z.pending[d] = Tail(x.pending[d]) /\ (\A c \in Dirs : c # d => z.pending[c] = x.pending[c])
      /\ (\A t \in StreamIds : /\ z.recv[t].terminal = x.recv[t].terminal
                               /\ z.recv[t].replenished = x.recv[t].replenished
                               /\ t # s => z.recv[t].accepted = x.recv[t].accepted)
      /\ z.recv[s].accepted BY <1>8, HandingDoes
<1>10. z \in Session /\ \A c \in Dirs : z.quota[c].released >= 0 BY <1>9
<1>11. y = MaybeReplenish(z, s) BY <1>8
<1>12. /\ y \in Session /\ SendSame(z, y) /\ DataSame(z, y) /\ y.pending = z.pending /\ y.recvStreams = z.recvStreams
       /\ (\A t \in StreamIds : y.recv[t].accepted = z.recv[t].accepted /\ y.recv[t].terminal = z.recv[t].terminal)
       /\ (\A t \in StreamIds : t # s => y.recv[t].replenished = z.recv[t].replenished)
       /\ \/ /\ s.by = z.me \/ ~z.recv[s].accepted \/ ~z.recv[s].terminal \/ z.recv[s].replenished
             /\ y.quota = z.quota /\ y.recv[s].replenished = z.recv[s].replenished
          \/ /\ s.by # z.me /\ z.recv[s].accepted /\ z.recv[s].terminal /\ ~z.recv[s].replenished
             /\ Replenished(z, y, s.dir) /\ y.recv[s].replenished BY <1>10, <1>11, MaybeReplenishDoes
<1>13. SendSame(x, y) /\ DataSame(x, y) BY <1>9, <1>12, SameIsTransitive
<1>15. y.me = x.me /\ y.closed = x.closed /\ y.recorded = x.recorded /\ y.recvStreams = x.recvStreams
  BY <1>9, <1>12, <1>13 DEF SendSame
<1>16. \A t \in StreamIds : /\ y.recv[t].terminal = x.recv[t].terminal
                            /\ t # s => /\ y.recv[t].accepted = x.recv[t].accepted
                                        /\ y.recv[t].replenished = x.recv[t].replenished BY <1>9, <1>12
<1>17. y.recv[s].accepted BY <1>9, <1>12
<1>18. \/ y.quota = x.quota /\ ~y.recv[s].replenished
       \/ x.recv[s].terminal /\ Replenished(x, y, s.dir) /\ y.recv[s].replenished
  <2>1. Replenished(z, y, s.dir) => Replenished(x, y, s.dir) BY <1>9 DEF Replenished
  <2>2. z.recv[s].terminal = x.recv[s].terminal /\ z.recv[s].replenished = x.recv[s].replenished BY <1>9
  <2>. QED BY <1>9, <1>12, <2>1, <2>2
<1>19. y.pending[d] = Tail(x.pending[d]) /\ \A c \in Dirs : c # d => y.pending[c] = x.pending[c] BY <1>9, <1>12
<1>. QED BY <1>12, <1>13, <1>15, <1>16, <1>17, <1>18, <1>19 DEF HandedOut

\* The acceptor hands out a stream.
LEMMA AcceptStep ==
  ASSUME NEW x \in Session, NEW p \in Int, NEW h \in Seq(StreamIds), NEW l \in Int, EndInv(x, p, h, l),
         NEW d \in Dirs, x.pending[d] # <<>>, NEW s, s = Head(x.pending[d]),
         NEW y, y = MaybeReplenish(Handing(x, d, s), s)
  PROVE  y \in Session /\ y.me = x.me /\ s \in StreamIds /\ EndInv(y, p, Append(h, s), l)
<1>0. SendInv(x, p) /\ DataInv(x) /\ AdmitInv(x, h, l) /\ (x.closed = "open" => p >= 0) BY DEF EndInv
<1>1. x.closed = "open" BY <1>0 DEF AdmitInv
<1>2. Seen(x) /\ Waiting(x, h) /\ \A c \in Dirs : x.quota[c].released >= 0 BY <1>0, <1>1 DEF AdmitInv
<1>3. x.pending[d] \in Seq(StreamIds) BY DEF Session
<1>4. PICK q \in Seq(StreamIds) : q = x.pending[d] BY <1>3
<1>5. q # <<>> /\ 1 \in DOMAIN q /\ s = q[1] /\ s \in StreamIds BY <1>4
<1>6. Fit(x, h, d, s) BY <1>2, <1>4, <1>5, WaitingIs
<1>7. s.by # x.me /\ ~x.recv[s].replenished BY <1>2, <1>5, <1>6 DEF Seen, Fit
<1>8. y \in Session /\ SendSame(x, y) /\ DataSame(x, y) /\ HandedOut(x, y, d, s) BY <1>2, <1>5, <1>7, HandedOutDoes
<1>9. SendInv(y, p) /\ DataInv(y) BY <1>0, <1>8, SendInvKept, DataInvKept
<1>10. PICK g : g = Append(h, s) OBVIOUS
<1>11. AdmitInv(y, g, l) BY <1>0, <1>1, <1>4, <1>5, <1>6, <1>7, <1>8, <1>10, HandedOutKeeps
<1>12. y.me = x.me /\ y.closed = x.closed BY <1>8 DEF HandedOut
<1>. QED BY <1>0, <1>5, <1>8, <1>9, <1>10, <1>11, <1>12 DEF EndInv

\* The end of a receive side is noted: what holds of it in a closed session too.
LEMMA NotifyTerminalTypes ==
  ASSUME NEW z \in Session, NEW s \in StreamIds, \A d \in Dirs : z.quota[d].released >= 0,
         NEW y, y = NotifyTerminal(z, s)
  PROVE  /\ y \in Session /\ SendSame(z, y) /\ DataSame(z, y) /\ y.pending = z.pending /\ y.recvStreams = z.recvStreams
         /\ \A d \in Dirs : y.quota[d].released >= 0
<1>1. PICK w : w = [z EXCEPT !.recv[s].terminal = TRUE] OBVIOUS
<1>2. z.recv \in [StreamIds -> Recv] /\ z.recv[s] \in Recv BY DEF Session
<1>3. PICK v : v = [z.recv[s] EXCEPT !.terminal = TRUE] OBVIOUS
<1>4. v \in Recv /\ v.queue = z.recv[s].queue BY <1>2, <1>3 DEF Recv
<1>5. PICK u : u = [z.recv EXCEPT ![s] = v] OBVIOUS
<1>6. u \in [StreamIds -> Recv] /\ u[s] = v /\ \A t \in StreamIds : t # s => u[t] = z.recv[t] BY <1>2, <1>4, <1>5
<1>7. w = [z EXCEPT !.recv = u] BY <1>1, <1>3, <1>5
<1>8. w \in Session BY <1>6, <1>7 DEF Session
<1>9. w.recv = u /\ w.quota = z.quota /\ w.pending = z.pending /\ w.recvStreams = z.recvStreams
      /\ w.data = z.data /\ w.me = z.me /\ w.closed = z.closed BY <1>7 DEF Session
<1>10. SendSame(z, w) BY <1>7 DEF Session, SendSame
<1>11. DataSame(z, w) BY <1>4, <1>6, <1>9 DEF DataSame
<1>12. y = MaybeReplenish(w, s) BY <1>1 DEF NotifyTerminal
<1>13. \A d \in Dirs : w.quota[d].released >= 0 BY <1>9
<1>14. /\ y \in Session /\ SendSame(w, y) /\ DataSame(w, y) /\ y.pending = w.pending /\ y.recvStreams = w.recvStreams
       /\ y.quota = w.quota \/ Replenished(w, y, s.dir) BY <1>8, <1>12, <1>13, MaybeReplenishDoes
<1>15. SendSame(z, y) /\ DataSame(z, y) BY <1>10, <1>11, <1>14, SameIsTransitive
<1>16. s.dir \in Dirs BY JsAssumption
<1>17. \A d \in Dirs : y.quota[d].released >= 0 BY <1>13, <1>14, <1>16 DEF Replenished
<1>. QED BY <1>9, <1>14, <1>15, <1>17

\* The receive side of a stream that the application cancelled is forgotten.
LEMMA ForgetStep ==
  ASSUME NEW x \in Session, NEW p \in Int, NEW h, NEW l \in Int, EndInv(x, p, h, l), NEW s \in StreamIds,
         x.recv[s].accepted, NEW y, y = NotifyTerminal(MaybeDeleteStreamFlow(Left(x, s), s), s)
  PROVE  y \in Session /\ y.me = x.me /\ EndInv(y, p, h, l)
<1>0. SendInv(x, p) /\ DataInv(x) /\ AdmitInv(x, h, l) /\ (x.closed = "open" => p >= 0) BY DEF EndInv
<1>1. PICK a : a = Left(x, s) OBVIOUS
<1>2. /\ a \in Session /\ SendSame(x, a) /\ DataSame(x, a)
      /\ a.me = x.me /\ a.closed = x.closed /\ a.recorded = x.recorded /\ a.pending = x.pending
      /\ a.quota = x.quota /\ a.recv = x.recv /\ a.recvStreams = x.recvStreams \ {s} BY <1>1, LeftDoes
<1>3. SendInv(a, p) /\ DataInv(a) BY <1>0, <1>2, SendInvKept, DataInvKept
<1>4. PICK b : b = MaybeDeleteStreamFlow(a, s) OBVIOUS
<1>5. b \in Session /\ RecvSame(a, b) /\ SendInv(b, p) BY <1>2, <1>3, <1>4, MaybeDeleteDoes, MaybeDeleteKeeps
<1>6. DataInv(b) BY <1>3, <1>5, DataInvKept DEF RecvSame
<1>7. /\ b.me = x.me /\ b.closed = x.closed /\ b.recorded = x.recorded /\ b.pending = x.pending
      /\ b.quota = x.quota /\ b.recvStreams = x.recvStreams \ {s}
      /\ \A t \in StreamIds : /\ b.recv[t].accepted = x.recv[t].accepted /\ b.recv[t].terminal = x.recv[t].terminal
                              /\ b.recv[t].replenished = x.recv[t].replenished BY <1>2, <1>5 DEF RecvSame, AdmitSame
<1>8. y = NotifyTerminal(b, s) BY <1>1, <1>4
<1>9. \A d \in Dirs : b.quota[d].released >= 0 BY <1>0, <1>7 DEF AdmitInv
<1>10. /\ y \in Session /\ SendSame(b, y) /\ DataSame(b, y) /\ y.pending = b.pending /\ y.recvStreams = b.recvStreams
       /\ \A d \in Dirs : y.quota[d].released >= 0 BY <1>5, <1>8, <1>9, NotifyTerminalTypes
<1>11. SendInv(y, p) /\ DataInv(y) BY <1>5, <1>6, <1>10, SendInvKept, DataInvKept
<1>12. y.me = x.me /\ y.closed = x.closed /\ y.recorded = x.recorded BY <1>7, <1>10 DEF SendSame
<1>13. AdmitInv(y, h, l)
  <2>1. CASE x.closed = "open"
    <3>1. Seen(x) /\ Waiting(x, h) /\ Slots(x, l) BY <1>0, <2>1 DEF AdmitInv
    <3>2. s \in x.recvStreams \/ x.recv[s].terminal BY <3>1 DEF Seen
    <3>3. Seen(y) /\ Waiting(y, h) /\ Slots(y, l) BY <1>5, <1>7, <1>8, <3>1, <3>2, NotifyTerminalKeeps
    <3>. QED BY <1>0, <1>12, <2>1, <3>3, AdmitFrom
  <2>2. CASE x.closed # "open" BY <1>0, <1>7, <1>10, <1>12, <2>2 DEF AdmitInv
  <2>. QED BY <2>1, <2>2
<1>. QED BY <1>0, <1>10, <1>11, <1>12, <1>13 DEF EndInv

Gone(x, s) == [x EXCEPT !.recv[s].cancelled = TRUE]

\* A readable is cancelled.
LEMMA CancelStep ==
  ASSUME NEW x \in Session, NEW p \in Int, NEW h, NEW l \in Int, EndInv(x, p, h, l), NEW s \in StreamIds,
         x.recv[s].accepted, NEW y, y = CancelRecv(x, s)
  PROVE  y \in Session /\ y.me = x.me /\ EndInv(y, p, h, l)
<1>1. PICK a, g : a = ErrorRecv(x, s) /\ g = Gone(a, s) OBVIOUS
<1>2. a \in Session /\ a.me = x.me /\ EndInv(a, p, h, l) /\ AdmitSame(x, a) BY <1>1, ErrorRecvStep
<1>3. PICK f : f = [type |-> "stop", id |-> s] OBVIOUS
<1>4. g \in Session /\ g.me = x.me /\ EndInv(g, p, h, l) /\ g.recv[s].accepted
  <2>1. a.recv \in [StreamIds -> Recv] /\ a.recv[s] \in Recv BY <1>2 DEF Session
  <2>2. PICK r : r = [a.recv[s] EXCEPT !.cancelled = TRUE] OBVIOUS
  <2>3. r \in Recv /\ r.queue = a.recv[s].queue /\ r.accepted = a.recv[s].accepted
        /\ r.replenished = a.recv[s].replenished /\ r.terminal = a.recv[s].terminal BY <2>1, <2>2 DEF Recv
  <2>4. PICK R : R = [a.recv EXCEPT ![s] = r] OBVIOUS
  <2>5. R \in [StreamIds -> Recv] /\ R[s] = r /\ \A u \in StreamIds : u # s => R[u] = a.recv[u] BY <2>1, <2>3, <2>4
  <2>6. g = [a EXCEPT !.recv = R] BY <1>1, <2>2, <2>4 DEF Gone
  <2>7. /\ g \in Session /\ g.me = a.me /\ g.closed = a.closed /\ g.recorded = a.recorded /\ g.pending = a.pending
        /\ g.quota = a.quota /\ g.recv = R /\ g.recvStreams = a.recvStreams /\ g.data = a.data
    BY <1>2, <2>5, <2>6, ZenonT(60) DEF Session
  <2>8. SendSame(a, g) BY <1>2, <2>6 DEF Session, SendSame
  <2>9. RecvSame(a, g) BY <2>3, <2>5, <2>7 DEF RecvSame, DataSame, AdmitSame
  <2>10. SendInv(a, p) /\ (a.closed = "open" => p >= 0) BY <1>2 DEF EndInv
  <2>11. SendInv(g, p) BY <1>2, <2>7, <2>8, <2>10, SendInvKept
  <2>12. g.recv[s].accepted BY <1>2, <2>3, <2>5, <2>7 DEF AdmitSame
  <2>. QED BY <1>2, <2>7, <2>9, <2>10, <2>11, <2>12, EndInvKept
<1>5. f \in Frame BY <1>3 DEF Frame
<1>6. PICK b : b = SendPriorityFrame(g, f) OBVIOUS
<1>7. b \in Session /\ b.me = g.me /\ EndInv(b, p, h, l) BY <1>4, <1>5, <1>6, ToldStep
<1>8. b.recv = g.recv BY <1>4, <1>5, <1>6, SendPriorityFrameDoes
<1>9. y = NotifyTerminal(MaybeDeleteStreamFlow(Left(b, s), s), s) BY <1>1, <1>3, <1>6, Zenon DEF CancelRecv, Left, Gone
<1>10. y \in Session /\ y.me = b.me /\ EndInv(y, p, h, l) BY <1>4, <1>7, <1>8, <1>9, ForgetStep
<1>. QED BY <1>4, <1>7, <1>10

Refusing(x, d) == [x EXCEPT !.cancelled = @ \cup {d}]
Emptied(x, d) == [x EXCEPT !.pending[d] = <<>>]

\* The flag of a cancelled acceptor is set.
LEMMA RefusingDoes ==
  ASSUME NEW x \in Session, NEW d \in Dirs, NEW y, y = Refusing(x, d)
  PROVE  y \in Session /\ SendSame(x, y) /\ RecvSame(x, y)
<1>1. PICK C : C = x.cancelled \cup {d} OBVIOUS
<1>2. C \in SUBSET Dirs BY <1>1 DEF Session
<1>3. y = [x EXCEPT !.cancelled = C] BY <1>1 DEF Refusing
<1>4. y \in Session BY <1>2, <1>3 DEF Session
<1>5. SendSame(x, y) BY <1>3 DEF Session, SendSame
<1>6. RecvSame(x, y) BY <1>3 DEF Session, RecvSame, DataSame, AdmitSame
<1>. QED BY <1>4, <1>5, <1>6

\* A queue of waiting streams is emptied.
LEMMA EmptiedDoes ==
  ASSUME NEW x \in Session, NEW d \in Dirs, NEW y, y = Emptied(x, d)
  PROVE  /\ y \in Session /\ SendSame(x, y) /\ DataSame(x, y)
         /\ y.me = x.me /\ y.closed = x.closed /\ y.recorded = x.recorded /\ y.quota = x.quota
         /\ y.recv = x.recv /\ y.recvStreams = x.recvStreams
         /\ y.pending[d] = <<>> /\ \A c \in Dirs : c # d => y.pending[c] = x.pending[c]
<1>1. PICK q : q = <<>> OBVIOUS
<1>2. q \in Seq(StreamIds) BY <1>1
<1>3. x.pending \in [Dirs -> Seq(StreamIds)] BY DEF Session
<1>4. PICK P : P = [x.pending EXCEPT ![d] = q] OBVIOUS
<1>5. P \in [Dirs -> Seq(StreamIds)] /\ P[d] = q /\ \A c \in Dirs : c # d => P[c] = x.pending[c] BY <1>2, <1>3, <1>4
<1>6. y = [x EXCEPT !.pending = P] BY <1>1, <1>4 DEF Emptied
<1>7. y \in Session BY <1>5, <1>6 DEF Session
<1>8. SendSame(x, y) BY <1>6 DEF Session, SendSame
<1>9. /\ y.me = x.me /\ y.closed = x.closed /\ y.recorded = x.recorded /\ y.quota = x.quota
      /\ y.recv = x.recv /\ y.recvStreams = x.recvStreams /\ y.pending = P /\ y.data = x.data BY <1>6 DEF Session
<1>. QED BY <1>1, <1>5, <1>7, <1>8, <1>9 DEF DataSame

\* Nobody waits for a cancelled acceptor.
LEMMA EmptiedStep ==
  ASSUME NEW x \in Session, NEW p, NEW h, NEW l, EndInv(x, p, h, l), NEW d \in Dirs, x.closed = "open",
         NEW y, y = Emptied(x, d)
  PROVE  y \in Session /\ y.me = x.me /\ EndInv(y, p, h, l)
<1>0. SendInv(x, p) /\ DataInv(x) /\ AdmitInv(x, h, l) /\ (x.closed = "open" => p >= 0) BY DEF EndInv
<1>1. /\ y \in Session /\ SendSame(x, y) /\ DataSame(x, y)
      /\ y.me = x.me /\ y.closed = x.closed /\ y.recorded = x.recorded /\ y.quota = x.quota
      /\ y.recv = x.recv /\ y.recvStreams = x.recvStreams
      /\ y.pending[d] = <<>> /\ \A c \in Dirs : c # d => y.pending[c] = x.pending[c] BY EmptiedDoes
<1>2. SendInv(y, p) /\ DataInv(y) BY <1>0, <1>1, SendInvKept, DataInvKept
<1>3. Seen(x) /\ Waiting(x, h) /\ Slots(x, l) BY <1>0 DEF AdmitInv
<1>4. Seen(y) BY <1>1, <1>3 DEF Seen
<1>5. Waiting(y, h)
  <2>1. DOMAIN y.pending[d] = {} BY <1>1
  <2>2. \A c \in Dirs : c # d => y.pending[c] = x.pending[c] BY <1>1
  <2>3. \A c \in Dirs : \A t : Fit(x, h, c, t) => Fit(y, h, c, t) BY <1>1 DEF Fit
  <2>4. \A c \in Dirs : /\ \A i, j \in DOMAIN x.pending[c] : x.pending[c][i] = x.pending[c][j] => i = j
                        /\ \A i \in DOMAIN x.pending[c] : Fit(x, h, c, x.pending[c][i]) BY <1>3, WaitingIs
  <2>5. \A c \in Dirs : /\ \A i, j \in DOMAIN y.pending[c] : y.pending[c][i] = y.pending[c][j] => i = j
                        /\ \A i \in DOMAIN y.pending[c] : Fit(y, h, c, y.pending[c][i])
    <3>. TAKE c \in Dirs
    <3>1. CASE c = d BY <2>1, <3>1
    <3>2. CASE c # d BY <2>2, <2>3, <2>4, <3>2
    <3>. QED BY <3>1, <3>2
  <2>. QED BY <2>5, WaitingIs
<1>6. \A c \in Dirs : Freed(y, c) = Freed(x, c) BY <1>1 DEF Freed
<1>7. Slots(y, l) BY <1>1, <1>3, <1>6 DEF Slots
<1>8. AdmitInv(y, h, l) BY <1>0, <1>1, <1>4, <1>5, <1>7, AdmitFrom
<1>. QED BY <1>0, <1>1, <1>2, <1>8 DEF EndInv

\* The acceptor is cancelled.
LEMMA CancelAcceptorStep ==
  ASSUME NEW x \in Session, NEW p, NEW h, NEW l, EndInv(x, p, h, l), NEW d \in Dirs, x.closed = "open",
         NEW y, y = Emptied(DropAll(Refusing(x, d), x.pending[d]), d)
  PROVE  y \in Session /\ y.me = x.me /\ EndInv(y, p, h, l)
<1>0. SendInv(x, p) /\ (x.closed = "open" => p >= 0) BY DEF EndInv
<1>1. PICK a : a = Refusing(x, d) OBVIOUS
<1>2. a \in Session /\ SendSame(x, a) /\ RecvSame(x, a) BY <1>1, RefusingDoes
<1>3. SendInv(a, p) BY <1>0, <1>2, SendInvKept
<1>4. a.me = x.me /\ EndInv(a, p, h, l) BY <1>0, <1>2, <1>3, EndInvKept
<1>5. PICK q \in Seq(StreamIds) : q = x.pending[d] BY DEF Session
<1>6. PICK b : b = DropAll(a, q) OBVIOUS
<1>7. b \in Session /\ SendSame(a, b) /\ AdmitSame(a, b) /\ DataInv(b) BY <1>2, <1>4, <1>6, DropAllDoes DEF EndInv
<1>10. SendInv(b, p) /\ AdmitInv(b, h, l) BY <1>2, <1>3, <1>4, <1>7, SendInvKept, AdmitInvKept DEF EndInv
<1>8. b.me = x.me /\ b.closed = "open" BY <1>2, <1>7 DEF AdmitSame, SendSame
<1>11. EndInv(b, p, h, l) BY <1>0, <1>7, <1>8, <1>10 DEF EndInv
<1>9. y = Emptied(b, d) BY <1>1, <1>5, <1>6
<1>. QED BY <1>7, <1>8, <1>9, <1>11, EmptiedStep

(******************************* the actions *******************************)

Writing(x, s, n) == [x EXCEPT !.writer[s].left = n, !.writer[s].wrote = @ + n]
Closing(x, s) ==
  [x EXCEPT !.writer[s].at = "closing",
            !.ready = Append(@, [type |-> "stream", id |-> s, fin |-> TRUE, n |-> 0])]
Aborting(x, s) == IF x.writer[s].at = "idle" THEN AbortAlgorithm(x, s) ELSE [x EXCEPT !.writer[s].abort = TRUE]
Ordered(x, s) == [x EXCEPT !.order[s] = 1]
Tried(x, s) ==
  IF TryClaim(x.conn, 1) = 0 THEN [x EXCEPT !.writer[s].woken = FALSE]
  ELSE [x EXCEPT !.conn.used = @ + 1, !.writer[s].at = "hold", !.writer[s].woken = FALSE]
Drained(x) == [x EXCEPT !.control = Tail(@)]
Taking(x) == [x EXCEPT !.ready = Without(@, PickStream(x)), !.inflight = <<x.ready[PickStream(x)]>>]

\* close() queues the FIN.
LEMMA ClosingStep ==
  ASSUME NEW x \in Session, NEW s \in StreamIds, NEW p \in Int, SendInv(x, p), Usable(x.writer[s]),
         NEW y, y = Closing(x, s)
  PROVE  y \in Session /\ RecvSame(x, y) /\ SendInv(y, p)
BY CloseWriterStep, Zenon DEF Closing

\* abort() runs, or is kept until the operation in progress ends.
LEMMA AbortingStep ==
  ASSUME NEW x \in Session, NEW s \in StreamIds, NEW p \in Int, SendInv(x, p), x.closed = "open",
         x.writer[s].at # "none", NEW y, y = Aborting(x, s)
  PROVE  y \in Session /\ RecvSame(x, y) /\ SendInv(y, p)
BY AbortWriterStep, Zenon DEF Aborting

\* The sendOrder is no part of any invariant.
LEMMA OrderedStep ==
  ASSUME NEW x \in Session, NEW s \in StreamIds, NEW y, y = Ordered(x, s)
  PROVE  y \in Session /\ RecvSame(x, y) /\ SendSame(x, y)
BY SetOrderStep, Zenon DEF Ordered

\* A claim woken on the connection takes one unit or parks again.
LEMMA TriedStep ==
  ASSUME NEW x \in Session, NEW s \in StreamIds, NEW p \in Int, SendInv(x, p), x.writer[s].at = "conn",
         NEW y, y = Tried(x, s)
  PROVE  y \in Session /\ RecvSame(x, y) /\ SendInv(y, p)
BY ResumeConnStep, Zenon DEF Tried

\* The head of the control queue is a frame.
LEMMA DrainedStep ==
  ASSUME NEW x \in Session, x.control # <<>>, NEW y, y = Drained(x)
  PROVE  y \in Session /\ RecvSame(x, y) /\ SendSame(x, y) /\ Head(x.control) \in Frame
BY WriteControlStep, Zenon DEF Drained

\* The frame that is picked leaves #ready for the socket.
LEMMA TakingStep ==
  ASSUME NEW x \in Session, NEW p \in Int, SendInv(x, p), x.ready # <<>>, x.inflight = <<>>, x.closed = "open",
         NEW y, y = Taking(x), NEW f, f = x.ready[PickStream(x)]
  PROVE  y \in Session /\ RecvSame(x, y) /\ SendInv(y, p) /\ f \in StreamFrame /\ f.n >= 0
BY TakeStreamStep, Zenon DEF Taking

\* write() claims credit for its first chunk or parks.
LEMMA WritingStep ==
  ASSUME NEW x \in Session, NEW s \in StreamIds, NEW p \in Int, SendInv(x, p), Usable(x.writer[s]),
         NEW n \in Int, n > 0, NEW y, y = ClaimSendCredit(Writing(x, s, n), s)
  PROVE  y \in Session /\ RecvSame(x, y) /\ SendInv(y, p)
BY WriteStep, Zenon DEF Writing

\* What the invariant says of one end.
LEMMA EndFacts ==
  ASSUME IInv, NEW e \in Ends
  PROVE  /\ sess[e] \in Session /\ sess[e].me = e /\ hist[e] \in History
         /\ hist[e].paid \in Int /\ hist[e].handed \in Seq(StreamIds)
         /\ plan \in Plans /\ plan.limit \in Int /\ plan.limit > 0 /\ plan.streams \subseteq StreamIds
         /\ EndInv(sess[e], hist[e].paid, hist[e].handed, plan.limit)
<1>1. TypeOK /\ EndInv(sess[e], hist[e].paid, hist[e].handed, plan.limit) BY DEF IInv, EndInv
<1>2. sess[e] \in Session /\ sess[e].me = e /\ hist[e] \in History /\ plan \in Plans BY <1>1 DEF TypeOK
<1>3. hist[e].paid \in Int /\ hist[e].handed \in Seq(StreamIds) BY <1>2 DEF History
<1>4. plan.limit \in Int /\ plan.limit > 0 BY <1>2, JsAssumption
<1>5. plan.streams \subseteq StreamIds BY <1>2 DEF StreamIds
<1>. QED BY <1>1, <1>2, <1>3, <1>4, <1>5

\* A step of one end that keeps what the invariant says of it keeps the invariant.
LEMMA OneEndMoves ==
  ASSUME IInv, NEW e \in Ends, NEW y \in Session, y.me = e, sess' = [sess EXCEPT ![e] = y],
         plan' = plan, wire' \in [Ends -> Seq(Frame)], cut' \in BOOLEAN,
         NEW g \in History, hist' = [hist EXCEPT ![e] = g], EndInv(y, g.paid, g.handed, plan.limit)
  PROVE  IInv'
<1>1. TypeOK /\ \A c \in Ends : EndInv(sess[c], hist[c].paid, hist[c].handed, plan.limit) BY DEF IInv, EndInv
<1>2. sess \in [Ends -> Session] /\ hist \in [Ends -> History] /\ \A c \in Ends : sess[c].me = c BY <1>1 DEF TypeOK
<1>3. sess' \in [Ends -> Session] /\ sess'[e] = y /\ \A c \in Ends : c # e => sess'[c] = sess[c] BY <1>2
<1>4. hist' \in [Ends -> History] /\ hist'[e] = g /\ \A c \in Ends : c # e => hist'[c] = hist[c] BY <1>2
<1>5. \A c \in Ends : sess'[c].me = c BY <1>2, <1>3
<1>6. TypeOK' BY <1>1, <1>3, <1>4, <1>5 DEF TypeOK
<1>7. \A c \in Ends : EndInv(sess'[c], hist'[c].paid, hist'[c].handed, plan.limit) BY <1>1, <1>3, <1>4
<1>8. \A c \in Ends : EndInv(sess'[c], hist'[c].paid, hist'[c].handed, plan'.limit) BY <1>7
<1>. QED BY <1>6, <1>8 DEF IInv, EndInv

\* The same for a step that leaves the wire and the history alone.
LEMMA LocalMoves ==
  ASSUME IInv, NEW e \in Ends, NEW y \in Session, y.me = e, sess' = [sess EXCEPT ![e] = y], Local,
         EndInv(y, hist[e].paid, hist[e].handed, plan.limit)
  PROVE  IInv'
<1>1. PICK g : g = hist[e] OBVIOUS
<1>2. g \in History /\ EndInv(y, g.paid, g.handed, plan.limit) BY <1>1, EndFacts
<1>3. hist \in [Ends -> History] /\ wire \in [Ends -> Seq(Frame)] /\ cut \in BOOLEAN BY DEF IInv, TypeOK
<1>4. hist' = [hist EXCEPT ![e] = g] BY <1>1, <1>3 DEF Local
<1>5. plan' = plan /\ wire' \in [Ends -> Seq(Frame)] /\ cut' \in BOOLEAN BY <1>3 DEF Local
<1>. QED BY <1>2, <1>4, <1>5, OneEndMoves

\* createBidirectionalStream, createUnidirectionalStream.
LEMMA CreateStreamKeeps ==
  ASSUME IInv, NEW e \in Ends, NEW s \in StreamIds, CreateStream(e, s)
  PROVE  IInv'
<1>1. PICK x, p, h, l : x = sess[e] /\ p = hist[e].paid /\ h = hist[e].handed /\ l = plan.limit OBVIOUS
<1>2. x \in Session /\ x.me = e /\ p \in Int /\ l \in Int /\ EndInv(x, p, h, l) BY <1>1, EndFacts
<1>3. PICK y : y = Created(x, s) OBVIOUS
<1>4. s.by = e /\ s.index = x.next[s.dir] /\ x.closed = "open" /\ Local BY <1>1, Zenon DEF CreateStream
<1>5. sess' = [sess EXCEPT ![e] = y] BY <1>1, <1>3, Zenon DEF CreateStream, Becomes, Created
<1>6. y \in Session /\ y.me = x.me /\ EndInv(y, p, h, l) BY <1>2, <1>3, <1>4, CreateStep
<1>. QED BY <1>1, <1>2, <1>4, <1>5, <1>6, LocalMoves

\* A step of the sending half that the receiving half does not see.
LEMMA SendingMoves ==
  ASSUME IInv, NEW e \in Ends, NEW y \in Session, RecvSame(sess[e], y), SendInv(y, hist[e].paid),
         sess' = [sess EXCEPT ![e] = y], Local
  PROVE  IInv'
<1>1. PICK x, p, h, l : x = sess[e] /\ p = hist[e].paid /\ h = hist[e].handed /\ l = plan.limit OBVIOUS
<1>2. x \in Session /\ x.me = e /\ EndInv(x, p, h, l) BY <1>1, EndFacts
<1>3. x.closed = "open" => p >= 0 BY <1>2 DEF EndInv
<1>4. RecvSame(x, y) /\ SendInv(y, p) BY <1>1
<1>5. y.me = x.me /\ EndInv(y, p, h, l) BY <1>2, <1>3, <1>4, EndInvKept
<1>. QED BY <1>1, <1>2, <1>5, LocalMoves

\* write() on a stream's writable.
LEMMA WriteKeeps ==
  ASSUME IInv, NEW e \in Ends, NEW s \in StreamIds, NEW n \in Int, n > 0, Write(e, s, n)
  PROVE  IInv'
<1>1. PICK x, p : x = sess[e] /\ p = hist[e].paid OBVIOUS
<1>2. x \in Session /\ p \in Int /\ SendInv(x, p) BY <1>1, EndFacts DEF EndInv
<1>3. PICK y : y = ClaimSendCredit(Writing(x, s, n), s) OBVIOUS
<1>4. Usable(x.writer[s]) /\ Local BY <1>1, Zenon DEF Write
<1>5. sess' = [sess EXCEPT ![e] = y] BY <1>1, <1>3, Zenon DEF Write, Becomes, Writing
<1>6. y \in Session /\ RecvSame(x, y) /\ SendInv(y, p) BY <1>2, <1>3, <1>4, WritingStep
<1>. QED BY <1>1, <1>4, <1>5, <1>6, SendingMoves

\* close() on a stream's writable.
LEMMA CloseWriterKeeps ==
  ASSUME IInv, NEW e \in Ends, NEW s \in StreamIds, CloseWriter(e, s)
  PROVE  IInv'
<1>1. PICK x, p : x = sess[e] /\ p = hist[e].paid OBVIOUS
<1>2. x \in Session /\ p \in Int /\ SendInv(x, p) BY <1>1, EndFacts DEF EndInv
<1>3. PICK y : y = Closing(x, s) OBVIOUS
<1>4. Usable(x.writer[s]) /\ Local BY <1>1, Zenon DEF CloseWriter
<1>5. sess' = [sess EXCEPT ![e] = y] BY <1>1, <1>3, Zenon DEF CloseWriter, Becomes, Closing
<1>6. y \in Session /\ RecvSame(x, y) /\ SendInv(y, p) BY <1>2, <1>3, <1>4, ClosingStep
<1>. QED BY <1>1, <1>4, <1>5, <1>6, SendingMoves

\* abort() on a stream's writable.
LEMMA AbortWriterKeeps ==
  ASSUME IInv, NEW e \in Ends, NEW s \in StreamIds, AbortWriter(e, s)
  PROVE  IInv'
<1>1. PICK x, p : x = sess[e] /\ p = hist[e].paid OBVIOUS
<1>2. x \in Session /\ p \in Int /\ SendInv(x, p) BY <1>1, EndFacts DEF EndInv
<1>3. PICK y : y = Aborting(x, s) OBVIOUS
<1>4. x.writer[s].at \notin {"none", "closed", "failed"} /\ x.closed = "open" /\ Local BY <1>1, Zenon DEF AbortWriter
<1>5. sess' = [sess EXCEPT ![e] = y] BY <1>1, <1>3, Zenon DEF AbortWriter, Becomes, Aborting
<1>6. x.writer[s].at # "none" BY <1>4
<1>7. y \in Session /\ RecvSame(x, y) /\ SendInv(y, p) BY <1>2, <1>3, <1>4, <1>6, AbortingStep
<1>. QED BY <1>1, <1>4, <1>5, <1>7, SendingMoves

\* The sendOrder of a stream is set.
LEMMA SetSendOrderKeeps ==
  ASSUME IInv, NEW e \in Ends, NEW s \in StreamIds, SetSendOrder(e, s)
  PROVE  IInv'
<1>1. PICK x, p : x = sess[e] /\ p = hist[e].paid OBVIOUS
<1>2. x \in Session /\ p \in Int /\ SendInv(x, p) BY <1>1, EndFacts DEF EndInv
<1>3. PICK y : y = Ordered(x, s) OBVIOUS
<1>4. Local BY Zenon DEF SetSendOrder
<1>5. sess' = [sess EXCEPT ![e] = y] BY <1>1, <1>3, Zenon DEF SetSendOrder, Becomes, Ordered
<1>6. y \in Session /\ RecvSame(x, y) /\ SendSame(x, y) BY <1>2, <1>3, OrderedStep
<1>7. SendInv(y, p) BY <1>2, <1>6, SendInvKept
<1>. QED BY <1>1, <1>4, <1>5, <1>6, <1>7, SendingMoves

\* What a claim that looks again becomes.
Resumed(x, s) ==
  CASE x.writer[s].at = "stream" -> ClaimSendCredit(x, s)
    [] x.writer[s].at = "conn" /\ TryClaim(x.conn, 1) = 0 -> [x EXCEPT !.writer[s].woken = FALSE]
    [] x.writer[s].at = "conn" /\ TryClaim(x.conn, 1) = 1 ->
         [x EXCEPT !.conn.used = @ + 1, !.writer[s].at = "hold", !.writer[s].woken = FALSE]
    [] x.writer[s].at = "hold" -> ClaimSendCredit(ReleaseConn(x, 1), s)

\* The cases of Resume.
LEMMA ResumedIs ==
  ASSUME NEW x, NEW s
  PROVE  /\ x.writer[s].at = "stream" => Resumed(x, s) = ClaimSendCredit(x, s)
         /\ x.writer[s].at = "hold" => Resumed(x, s) = ClaimSendCredit(ReleaseConn(x, 1), s)
         /\ x.writer[s].at = "conn" /\ TryClaim(x.conn, 1) \in {0, 1} => Resumed(x, s) = Tried(x, s)
<1>1. PICK a, b, c, d, u, v : /\ a = ClaimSendCredit(x, s) /\ b = [x EXCEPT !.writer[s].woken = FALSE]
                              /\ c = [x EXCEPT !.conn.used = @ + 1, !.writer[s].at = "hold", !.writer[s].woken = FALSE]
                              /\ d = ClaimSendCredit(ReleaseConn(x, 1), s)
                              /\ u = x.writer[s].at /\ v = TryClaim(x.conn, 1) BY Zenon
<1>2. Resumed(x, s) = CASE u = "stream" -> a [] u = "conn" /\ v = 0 -> b [] u = "conn" /\ v = 1 -> c [] u = "hold" -> d
  BY <1>1, Zenon DEF Resumed
<1>3. Tried(x, s) = IF v = 0 THEN b ELSE c BY <1>1, Zenon DEF Tried
<1>4. /\ u = "stream" => Resumed(x, s) = a
      /\ u = "hold" => Resumed(x, s) = d
      /\ u = "conn" /\ v \in {0, 1} => Resumed(x, s) = Tried(x, s)
  <2>. HIDE <1>1
  <2>. QED BY <1>2, <1>3
<1>. QED BY <1>1, <1>4, Zenon

\* A claim that was woken looks again.
LEMMA ResumeKeeps ==
  ASSUME IInv, NEW e \in Ends, NEW s \in StreamIds, Resume(e, s)
  PROVE  IInv'
<1>1. PICK x, p : x = sess[e] /\ p = hist[e].paid OBVIOUS
<1>2. x \in Session /\ p \in Int /\ SendInv(x, p) /\ (x.closed = "open" => p >= 0) BY <1>1, EndFacts DEF EndInv
<1>3. PICK y : y = Resumed(x, s) OBVIOUS
<1>4. (x.writer[s].at = "hold" \/ x.writer[s].at \in {"stream", "conn"}) /\ Local BY <1>1, Zenon DEF Resume
<1>5. sess' = [sess EXCEPT ![e] = y] BY <1>1, <1>3, Zenon DEF Resume, Becomes, Resumed
<1>6. x.conn.max \in Int /\ x.conn.used \in Int BY <1>2 DEF Session, CreditRecord
<1>7. TryClaim(x.conn, 1) \in {0, 1} BY <1>6, TryClaimDoes
<1>8. CASE x.writer[s].at = "hold"
  <2>1. y = ClaimSendCredit(ReleaseConn(x, 1), s) BY <1>3, <1>8, ResumedIs
  <2>2. y \in Session /\ RecvSame(x, y) /\ SendInv(y, p) BY <1>2, <1>8, <2>1, ResumeHoldStep
  <2>. QED BY <1>1, <1>4, <1>5, <2>2, SendingMoves
<1>9. CASE x.writer[s].at = "stream"
  <2>1. y = ClaimSendCredit(x, s) BY <1>3, <1>9, ResumedIs
  <2>2. y \in Session /\ RecvSame(x, y) /\ SendInv(y, p) BY <1>2, <1>9, <2>1, ResumeStreamStep
  <2>. QED BY <1>1, <1>4, <1>5, <2>2, SendingMoves
<1>10. CASE x.writer[s].at = "conn"
  <2>1. y = Tried(x, s) BY <1>3, <1>7, <1>10, ResumedIs
  <2>2. y \in Session /\ RecvSame(x, y) /\ SendInv(y, p) BY <1>2, <1>10, <2>1, TriedStep
  <2>. QED BY <1>1, <1>4, <1>5, <2>2, SendingMoves
<1>. QED BY <1>4, <1>8, <1>9, <1>10

\* A readable is cancelled.
LEMMA CancelKeeps ==
  ASSUME IInv, NEW e \in Ends, NEW s \in StreamIds, Cancel(e, s)
  PROVE  IInv'
<1>1. PICK x, p, h, l : x = sess[e] /\ p = hist[e].paid /\ h = hist[e].handed /\ l = plan.limit OBVIOUS
<1>2. x \in Session /\ x.me = e /\ p \in Int /\ l \in Int /\ EndInv(x, p, h, l) BY <1>1, EndFacts
<1>3. PICK y : y = CancelRecv(x, s) OBVIOUS
<1>4. x.recv[s].accepted /\ Local BY <1>1, Zenon DEF Cancel
<1>5. sess' = [sess EXCEPT ![e] = y] BY <1>1, <1>3, Zenon DEF Cancel, Becomes
<1>6. y \in Session /\ y.me = x.me /\ EndInv(y, p, h, l) BY <1>2, <1>3, <1>4, CancelStep
<1>. QED BY <1>1, <1>2, <1>4, <1>5, <1>6, LocalMoves

\* The acceptor is cancelled.
LEMMA CancelAcceptorKeeps ==
  ASSUME IInv, NEW e \in Ends, NEW d \in Dirs, CancelAcceptor(e, d)
  PROVE  IInv'
<1>1. PICK x, p, h, l : x = sess[e] /\ p = hist[e].paid /\ h = hist[e].handed /\ l = plan.limit OBVIOUS
<1>2. x \in Session /\ x.me = e /\ p \in Int /\ l \in Int /\ EndInv(x, p, h, l) BY <1>1, EndFacts
<1>3. PICK y : y = Emptied(DropAll(Refusing(x, d), x.pending[d]), d) OBVIOUS
<1>4. x.closed = "open" /\ Local BY <1>1, Zenon DEF CancelAcceptor
<1>5. sess' = [sess EXCEPT ![e] = y] BY <1>1, <1>3, Zenon DEF CancelAcceptor, Becomes, Emptied, Refusing
<1>6. y \in Session /\ y.me = x.me /\ EndInv(y, p, h, l) BY <1>2, <1>3, <1>4, CancelAcceptorStep
<1>. QED BY <1>1, <1>2, <1>4, <1>5, <1>6, LocalMoves

\* The end of the socket is seen.
LEMMA SocketClosedKeeps ==
  ASSUME IInv, NEW e \in Ends, SocketClosed(e)
  PROVE  IInv'
<1>1. PICK x, p, h, l : x = sess[e] /\ p = hist[e].paid /\ h = hist[e].handed /\ l = plan.limit OBVIOUS
<1>2. x \in Session /\ x.me = e /\ EndInv(x, p, h, l) BY <1>1, EndFacts
<1>3. PICK how \in {"fulfilled", "rejected"} : how = "rejected" OBVIOUS
<1>4. PICK y : y = EndSession(x, how) OBVIOUS
<1>5. sess' = [sess EXCEPT ![e] = y] /\ Local BY <1>1, <1>3, <1>4, Zenon DEF SocketClosed, Becomes
<1>6. y \in Session /\ y.me = x.me /\ EndInv(y, p, h, l) BY <1>2, <1>4, EndStep
<1>. QED BY <1>1, <1>2, <1>5, <1>6, LocalMoves

\* A readable is read.
LEMMA ReadKeeps ==
  ASSUME IInv, NEW e \in Ends, NEW s \in StreamIds, Read(e, s)
  PROVE  IInv'
<1>1. PICK x, p, h, l : x = sess[e] /\ p = hist[e].paid /\ h = hist[e].handed /\ l = plan.limit OBVIOUS
<1>2. x \in Session /\ x.me = e /\ p \in Int /\ l \in Int /\ EndInv(x, p, h, l) BY <1>1, EndFacts
<1>3. PICK n : n = Head(x.recv[s].queue) OBVIOUS
<1>4. PICK y : y = AccountConnConsumed(AccountStreamConsumed(Popped(x, s), s, n), n) OBVIOUS
<1>5. x.recv[s].queue # <<>> /\ plan' = plan /\ wire' = wire /\ cut' = cut BY <1>1, Zenon DEF Read
<1>6. sess' = [sess EXCEPT ![e] = y] BY <1>1, <1>3, <1>4, Zenon DEF Read, Becomes, Popped
<1>7. y \in Session /\ y.me = x.me /\ EndInv(y, p, h, l) /\ n \in Nat BY <1>2, <1>3, <1>4, <1>5, ReadStep
<1>8. n \in Int BY <1>7
<1>9. hist' = [hist EXCEPT ![e].got[s] = @ + n] BY <1>1, <1>3, Zenon DEF Read
<1>10. hist \in [Ends -> History] /\ hist[e] \in History /\ wire \in [Ends -> Seq(Frame)] /\ cut \in BOOLEAN
  BY DEF IInv, TypeOK
<1>11. hist[e].got \in [StreamIds -> Int] BY <1>10 DEF History
<1>12. PICK k : k = [hist[e].got EXCEPT ![s] = @ + n] OBVIOUS
<1>13. k \in [StreamIds -> Int] BY <1>8, <1>11, <1>12
<1>14. PICK g : g = [hist[e] EXCEPT !.got = k] OBVIOUS
<1>15. g \in History /\ g.paid = p /\ g.handed = h BY <1>1, <1>10, <1>14, <1>13 DEF History
<1>16. hist' = [hist EXCEPT ![e] = g] BY <1>9, <1>10, <1>14, <1>12
<1>17. EndInv(y, g.paid, g.handed, plan.limit) /\ y.me = e BY <1>1, <1>2, <1>7, <1>15
<1>18. wire' \in [Ends -> Seq(Frame)] /\ cut' \in BOOLEAN /\ plan' = plan BY <1>5, <1>10
<1>. QED BY <1>6, <1>7, <1>15, <1>16, <1>17, <1>18, OneEndMoves

\* The acceptor hands out a stream.
LEMMA AcceptKeeps ==
  ASSUME IInv, NEW e \in Ends, NEW d \in Dirs, Accept(e, d)
  PROVE  IInv'
<1>1. PICK x, p, h, l : x = sess[e] /\ p = hist[e].paid /\ h = hist[e].handed /\ l = plan.limit OBVIOUS
<1>2. x \in Session /\ x.me = e /\ p \in Int /\ h \in Seq(StreamIds) /\ l \in Int /\ EndInv(x, p, h, l)
  BY <1>1, EndFacts
<1>3. PICK s : s = Head(x.pending[d]) OBVIOUS
<1>4. PICK y : y = MaybeReplenish(Handing(x, d, s), s) OBVIOUS
<1>5. x.pending[d] # <<>> /\ plan' = plan /\ wire' = wire /\ cut' = cut BY <1>1, Zenon DEF Accept
<1>6. sess' = [sess EXCEPT ![e] = y] BY <1>1, <1>3, <1>4, Zenon DEF Accept, Becomes, OnAccept, Handing
<1>7. y \in Session /\ y.me = x.me /\ s \in StreamIds /\ EndInv(y, p, Append(h, s), l)
  BY <1>2, <1>3, <1>4, <1>5, AcceptStep
<1>8. hist' = [hist EXCEPT ![e].handed = Append(@, s)] BY <1>1, <1>3, Zenon DEF Accept
<1>9. hist \in [Ends -> History] /\ hist[e] \in History /\ wire \in [Ends -> Seq(Frame)] /\ cut \in BOOLEAN
  BY DEF IInv, TypeOK
<1>10. PICK k \in Seq(StreamIds) : k = Append(h, s)
  <2>1. h \in Seq(StreamIds) /\ s \in StreamIds BY <1>2, <1>7
  <2>2. Append(h, s) \in Seq(StreamIds)
    <3>. HIDE <1>3, <1>5
    <3>. QED BY <2>1
  <2>. QED BY <2>2
<1>11. PICK g : g = [hist[e] EXCEPT !.handed = k] OBVIOUS
<1>12. g \in History /\ g.paid = p /\ g.handed = k BY <1>1, <1>9, <1>11 DEF History
<1>13. hist' = [hist EXCEPT ![e] = g] BY <1>1, <1>8, <1>9, <1>10, <1>11
<1>14. EndInv(y, g.paid, g.handed, plan.limit) /\ y.me = e BY <1>1, <1>2, <1>7, <1>10, <1>12
<1>15. wire' \in [Ends -> Seq(Frame)] /\ cut' \in BOOLEAN /\ plan' = plan BY <1>5, <1>9
<1>. QED BY <1>6, <1>7, <1>12, <1>13, <1>14, <1>15, OneEndMoves

\* close().
LEMMA CloseSessionKeeps ==
  ASSUME IInv, NEW e \in Ends, CloseSession(e)
  PROVE  IInv'
<1>1. PICK x, p, h, l : x = sess[e] /\ p = hist[e].paid /\ h = hist[e].handed /\ l = plan.limit OBVIOUS
<1>2. x \in Session /\ x.me = e /\ EndInv(x, p, h, l) BY <1>1, EndFacts
<1>3. PICK y : y = Close(x) OBVIOUS
<1>4. sess' = [sess EXCEPT ![e] = y] /\ plan' = plan /\ wire' = wire /\ cut' = cut
  BY <1>1, <1>3, Zenon DEF CloseSession, Becomes
<1>5. y \in Session /\ y.me = x.me /\ EndInv(y, p, h, l) BY <1>2, <1>3, CloseStep
<1>6. PICK b \in BOOLEAN : b = TRUE OBVIOUS
<1>7. hist' = [hist EXCEPT ![e].asked = b] BY <1>6, Zenon DEF CloseSession
<1>8. hist \in [Ends -> History] /\ hist[e] \in History /\ wire \in [Ends -> Seq(Frame)] /\ cut \in BOOLEAN
  BY DEF IInv, TypeOK
<1>9. PICK g : g = [hist[e] EXCEPT !.asked = b] OBVIOUS
<1>10. g \in History /\ g.paid = p /\ g.handed = h BY <1>1, <1>8, <1>9 DEF History
<1>11. hist' = [hist EXCEPT ![e] = g] BY <1>7, <1>8, <1>9
<1>12. EndInv(y, g.paid, g.handed, plan.limit) /\ y.me = e BY <1>1, <1>2, <1>5, <1>10
<1>13. wire' \in [Ends -> Seq(Frame)] /\ cut' \in BOOLEAN /\ plan' = plan BY <1>4, <1>8
<1>. QED BY <1>4, <1>5, <1>10, <1>11, <1>12, <1>13, OneEndMoves

\* A frame leaves on the wire.
LEMMA WireAppend ==
  ASSUME wire \in [Ends -> Seq(Frame)], NEW e \in Ends, NEW f \in Frame, wire' = [wire EXCEPT ![e] = Append(@, f)]
  PROVE  wire' \in [Ends -> Seq(Frame)]
<1>1. wire[e] \in Seq(Frame) OBVIOUS
<1>2. PICK r \in Seq(Frame) : r = wire[e] BY <1>1
<1>3. Append(r, f) \in Seq(Frame) OBVIOUS
<1>4. PICK q \in Seq(Frame) : q = Append(wire[e], f) BY <1>2, <1>3
<1>5. wire' = [wire EXCEPT ![e] = q] BY <1>4
<1>. QED BY <1>5

\* The socket took a stream's frame.
LEMMA WriteDoneKeeps ==
  ASSUME IInv, NEW e \in Ends, WriteDone(e)
  PROVE  IInv'
<1>1. PICK x, p, h, l : x = sess[e] /\ p = hist[e].paid /\ h = hist[e].handed /\ l = plan.limit OBVIOUS
<1>2. x \in Session /\ x.me = e /\ p \in Int /\ EndInv(x, p, h, l) BY <1>1, EndFacts
<1>3. PICK y, n : y = FrameWritten(x) /\ n = x.writer[x.inflight[1].id].held OBVIOUS
<1>4. x.inflight # <<>> /\ sess' = [sess EXCEPT ![e] = y] /\ plan' = plan /\ wire' = wire /\ cut' = cut
  BY <1>1, <1>3, Zenon DEF WriteDone, Becomes
<1>5. SendInv(x, p) /\ (x.closed = "open" => p >= 0) BY <1>2 DEF EndInv
<1>6. y \in Session /\ RecvSame(x, y) /\ SendInv(y, p + n) /\ (x.closed = "open" => n >= 0)
  BY <1>2, <1>3, <1>4, <1>5, FrameWrittenDoes
<1>7. n \in Int
  <2>1. x.inflight[1].id \in StreamIds BY <1>2, <1>4, FrameTypes
  <2>2. x.writer[x.inflight[1].id] \in Writer BY <1>2, <2>1 DEF Session
  <2>. QED BY <1>3, <2>2 DEF Writer
<1>8. PICK q \in Int : q = p + n BY <1>2, <1>7
<1>9. SendInv(y, q) /\ (x.closed = "open" => q >= 0) BY <1>2, <1>5, <1>6, <1>7, <1>8
<1>10. y.me = x.me /\ EndInv(y, q, h, l) BY <1>2, <1>6, <1>9, EndInvKept
<1>11. hist' = [hist EXCEPT ![e].paid = @ + n] BY <1>1, <1>3, Zenon DEF WriteDone
<1>12. hist \in [Ends -> History] /\ hist[e] \in History /\ wire \in [Ends -> Seq(Frame)] /\ cut \in BOOLEAN
  BY DEF IInv, TypeOK
<1>13. PICK g : g = [hist[e] EXCEPT !.paid = q] OBVIOUS
<1>14. g \in History /\ g.paid = q /\ g.handed = h BY <1>1, <1>12, <1>13 DEF History
<1>15. hist' = [hist EXCEPT ![e] = g] BY <1>1, <1>8, <1>11, <1>12, <1>13
<1>16. EndInv(y, g.paid, g.handed, plan.limit) /\ y.me = e BY <1>1, <1>2, <1>10, <1>14
<1>17. wire' \in [Ends -> Seq(Frame)] /\ cut' \in BOOLEAN /\ plan' = plan BY <1>4, <1>12
<1>. QED BY <1>4, <1>6, <1>14, <1>15, <1>16, <1>17, OneEndMoves

\* The scheduler writes a control frame.
LEMMA WriteControlKeeps ==
  ASSUME IInv, NEW e \in Ends, WriteControl(e)
  PROVE  IInv'
<1>1. PICK x, p, h, l : x = sess[e] /\ p = hist[e].paid /\ h = hist[e].handed /\ l = plan.limit OBVIOUS
<1>2. x \in Session /\ x.me = e /\ p \in Int /\ EndInv(x, p, h, l) BY <1>1, EndFacts
<1>3. PICK f, y : f = Head(x.control) /\ y = Drained(x) OBVIOUS
<1>4. x.control # <<>> /\ plan' = plan /\ cut' = cut BY <1>1, Zenon DEF WriteControl
<1>5. sess' = [sess EXCEPT ![e] = y] BY <1>1, <1>3, Zenon DEF WriteControl, Becomes, Drained
<1>6. wire' = [wire EXCEPT ![e] = Append(@, f)] BY <1>1, <1>3, Zenon DEF WriteControl
<1>7. y \in Session /\ RecvSame(x, y) /\ SendSame(x, y) /\ f \in Frame BY <1>2, <1>3, <1>4, DrainedStep
<1>8. SendInv(x, p) /\ (x.closed = "open" => p >= 0) BY <1>2 DEF EndInv
<1>9. SendInv(y, p) BY <1>2, <1>7, <1>8, SendInvKept
<1>10. y.me = x.me /\ EndInv(y, p, h, l) BY <1>2, <1>7, <1>8, <1>9, EndInvKept
<1>11. hist \in [Ends -> History] /\ hist[e] \in History /\ wire \in [Ends -> Seq(Frame)] /\ cut \in BOOLEAN
  BY DEF IInv, TypeOK
<1>12. wire' \in [Ends -> Seq(Frame)] BY <1>6, <1>7, <1>11, WireAppend
<1>13. \E g \in History : hist' = [hist EXCEPT ![e] = g] /\ g.paid = p /\ g.handed = h
  <2>1. CASE f.type = "reset"
    <3>1. hist' = [hist EXCEPT ![e].reset = @ \cup {f.id}] BY <1>1, <1>3, <2>1, Zenon DEF WriteControl
    <3>2. f.id \in StreamIds BY <1>7, <2>1, FrameFields
    <3>3. PICK r : r = hist[e].reset \cup {f.id} OBVIOUS
    <3>4. r \in SUBSET StreamIds BY <1>11, <3>2, <3>3 DEF History
    <3>5. PICK g : g = [hist[e] EXCEPT !.reset = r] OBVIOUS
    <3>6. g \in History /\ g.paid = hist[e].paid /\ g.handed = hist[e].handed BY <1>11, <3>4, <3>5 DEF History
    <3>7. hist' = [hist EXCEPT ![e] = g] BY <1>11, <3>1, <3>3, <3>5
    <3>. QED BY <1>1, <3>6, <3>7
  <2>2. CASE f.type # "reset"
    <3>1. hist' = hist BY <1>1, <1>3, <2>2, Zenon DEF WriteControl
    <3>2. hist' = [hist EXCEPT ![e] = hist[e]] BY <1>11, <3>1
    <3>. QED BY <1>1, <1>11, <3>2
  <2>. QED BY <2>1, <2>2
<1>14. PICK g \in History : hist' = [hist EXCEPT ![e] = g] /\ g.paid = p /\ g.handed = h BY <1>13
<1>15. EndInv(y, g.paid, g.handed, plan.limit) /\ y.me = e BY <1>1, <1>2, <1>10, <1>14
<1>16. cut' \in BOOLEAN /\ plan' = plan BY <1>4, <1>11
<1>. QED BY <1>5, <1>7, <1>12, <1>14, <1>15, <1>16, OneEndMoves

\* The scheduler takes a stream's frame.
LEMMA TakeStreamKeeps ==
  ASSUME IInv, NEW e \in Ends, TakeStream(e)
  PROVE  IInv'
<1>1. PICK x, p, h, l : x = sess[e] /\ p = hist[e].paid /\ h = hist[e].handed /\ l = plan.limit OBVIOUS
<1>2. x \in Session /\ x.me = e /\ p \in Int /\ EndInv(x, p, h, l) BY <1>1, EndFacts
<1>3. PICK f, y : f = x.ready[PickStream(x)] /\ y = Taking(x) OBVIOUS
<1>4. x.ready # <<>> /\ x.inflight = <<>> /\ x.closed = "open" /\ plan' = plan /\ cut' = cut
  BY <1>1, Zenon DEF TakeStream
<1>5. sess' = [sess EXCEPT ![e] = y] BY <1>1, <1>3, Zenon DEF TakeStream, Becomes, Taking
<1>6. wire' = [wire EXCEPT ![e] = Append(@, f)] BY <1>1, <1>3, Zenon DEF TakeStream
<1>7. hist' = [hist EXCEPT ![e].put[f.id] = @ + f.n,
                           ![e].trailed = IF f.id \in hist[e].reset THEN @ \cup {f.id} ELSE @]
  BY <1>1, <1>3, Zenon DEF TakeStream
<1>8. SendInv(x, p) /\ (x.closed = "open" => p >= 0) BY <1>2 DEF EndInv
<1>9. y \in Session /\ RecvSame(x, y) /\ SendInv(y, p) /\ f \in StreamFrame /\ f.n >= 0
  BY <1>2, <1>3, <1>4, <1>8, TakingStep
<1>10. y.me = x.me /\ EndInv(y, p, h, l) BY <1>2, <1>8, <1>9, EndInvKept
<1>11. hist \in [Ends -> History] /\ hist[e] \in History /\ wire \in [Ends -> Seq(Frame)] /\ cut \in BOOLEAN
  BY DEF IInv, TypeOK
<1>12. f \in Frame /\ f.id \in StreamIds /\ f.n \in Int
  <2>1. f \in [type : {"stream"}, id : StreamIds, fin : BOOLEAN, n : Nat] /\ f.id \in StreamIds /\ f.n \in Int
    BY <1>9 DEF StreamFrame
  <2>. QED BY <2>1 DEF Frame
<1>13. wire' \in [Ends -> Seq(Frame)] BY <1>6, <1>11, <1>12, WireAppend
<1>14. PICK s \in StreamIds, n \in Int : s = f.id /\ n = f.n BY <1>12
<1>15. PICK P : P = [hist[e].put EXCEPT ![s] = @ + n] OBVIOUS
<1>16. P \in [StreamIds -> Int] BY <1>11, <1>15 DEF History
<1>17. PICK T : T = IF s \in hist[e].reset THEN hist[e].trailed \cup {s} ELSE hist[e].trailed OBVIOUS
<1>18. T \in SUBSET StreamIds BY <1>11, <1>17 DEF History
<1>19. PICK g : g = [hist[e] EXCEPT !.put = P, !.trailed = T] OBVIOUS
<1>20. g \in History /\ g.paid = p /\ g.handed = h BY <1>1, <1>11, <1>16, <1>18, <1>19 DEF History
<1>21. hist' = [hist EXCEPT ![e].put[s] = @ + n, ![e].trailed = IF s \in hist[e].reset THEN @ \cup {s} ELSE @]
  BY <1>7, <1>14, Zenon
<1>22. hist' = [hist EXCEPT ![e].put = P, ![e].trailed = T] BY <1>11, <1>15, <1>17, <1>21 DEF History
<1>23. hist' = [hist EXCEPT ![e] = g] BY <1>11, <1>19, <1>22 DEF History
<1>24. EndInv(y, g.paid, g.handed, plan.limit) /\ y.me = e BY <1>1, <1>2, <1>10, <1>20
<1>25. cut' \in BOOLEAN /\ plan' = plan BY <1>4, <1>11
<1>. QED BY <1>5, <1>9, <1>13, <1>20, <1>23, <1>24, <1>25, OneEndMoves

\* A frame arrives.
LEMMA ReceiveKeeps ==
  ASSUME IInv, NEW e \in Ends, Receive(e)
  PROVE  IInv'
<1>1. PICK x, p, h, l : x = sess[e] /\ p = hist[e].paid /\ h = hist[e].handed /\ l = plan.limit OBVIOUS
<1>2. x \in Session /\ x.me = e /\ p \in Int /\ l \in Int /\ plan.limit \in Int /\ EndInv(x, p, h, l) BY <1>1, EndFacts
<1>3. PICK o \in Ends : o = Peer(e) BY DEF Ends, Peer
<1>4. hist \in [Ends -> History] /\ hist[e] \in History /\ wire \in [Ends -> Seq(Frame)] /\ cut \in BOOLEAN
  BY DEF IInv, TypeOK
<1>5. PICK f, y : f = Head(wire[o]) /\ y = RecvFrame(x, f) OBVIOUS
<1>6. wire[o] # <<>> /\ plan' = plan /\ hist' = hist BY <1>3, Zenon DEF Receive
<1>7. sess' = [sess EXCEPT ![e] = y] BY <1>1, <1>3, <1>5, Zenon DEF Receive, Becomes
<1>8. wire' = [wire EXCEPT ![o] = Tail(@)] BY <1>3, Zenon DEF Receive
<1>9. cut' = (cut \/ f.type \in {"app_close", "connection_close"}) BY <1>3, <1>5, Zenon DEF Receive
<1>10. PICK q \in Seq(Frame) : q = wire[o] BY <1>4
<1>11. f \in Frame /\ Tail(q) \in Seq(Frame) BY <1>5, <1>6, <1>10
<1>12. y \in Session /\ y.me = x.me /\ EndInv(y, p, h, l) BY <1>2, <1>5, <1>11, RecvFrameStep
<1>13. wire' \in [Ends -> Seq(Frame)]
  <2>1. PICK r \in Seq(Frame) : r = Tail(q) BY <1>11
  <2>2. wire' = [wire EXCEPT ![o] = r] BY <1>8, <1>10, <2>1
  <2>. QED BY <1>4, <2>2
<1>14. cut' \in BOOLEAN BY <1>9, Zenon
<1>15. PICK g \in History : g = hist[e] BY <1>4
<1>16. hist' = [hist EXCEPT ![e] = g] BY <1>4, <1>6, <1>15
<1>17. EndInv(y, g.paid, g.handed, plan.limit) /\ y.me = e BY <1>1, <1>2, <1>12, <1>15
<1>. QED BY <1>6, <1>7, <1>12, <1>13, <1>14, <1>16, <1>17, OneEndMoves

\* The socket goes away: no session sees it yet.
LEMMA CutKeeps ==
  ASSUME IInv, plan' = plan, sess' = sess, hist' = hist, wire' \in [Ends -> Seq(Frame)], cut' \in BOOLEAN
  PROVE  IInv'
<1>1. TypeOK' BY DEF IInv, TypeOK
<1>. QED BY <1>1 DEF IInv

(***************************** the start and the steps *********************)

\* Nothing adds up to nothing.
LEMMA NoSum ==
  ASSUME NEW g, g = [s \in StreamIds |-> 0]
  PROVE  SumFunction(g) = 0
<1>1. IsFiniteSet(StreamIds) /\ DOMAIN g = StreamIds /\ \A s \in StreamIds : g[s] \in Int /\ g[s] = 0 BY JsAssumption
<1>2. SumFunctionOnSet(g, StreamIds) \in Int BY <1>1, TotalType
<1>3. SumFunctionOnSet(g, StreamIds) = SumFunctionOnSet(g, StreamIds) + SumFunctionOnSet(g, StreamIds)
  <2>1. \A s \in StreamIds : g[s] = IF s \in StreamIds THEN 0 ELSE g[s] BY <1>1
  <2>2. StreamIds \in SUBSET StreamIds OBVIOUS
  <2>. QED BY <1>1, <2>1, <2>2, TotalSplit
<1>4. SumFunctionOnSet(g, StreamIds) = 0
  <2>1. PICK n \in Int : n = SumFunctionOnSet(g, StreamIds) BY <1>2, Zenon
  <2>2. n = n + n BY <1>3, <2>1, Zenon
  <2>3. n = 0 BY <2>2
  <2>. QED BY <2>1, <2>3, Zenon
<1>5. SumFunction(g) = SumFunctionOnSet(g, DOMAIN g) BY SumIsTotal
<1>. QED BY <1>1, <1>4, <1>5, Zenon

\* The record of a new session, with the values of its parts named.
Fresh(e, b, c, O, N, Q, D, F, R, W, P, K, C) ==
  [me |-> e, closed |-> "open", params |-> b,
   conn |-> c, opens |-> O, next |-> N, quota |-> Q, data |-> D,
   recorded |-> {}, flow |-> F, streamFlow |-> {},
   sendStreams |-> {}, recvStreams |-> {},
   recv |-> R, writer |-> W, pending |-> P, cancelled |-> {}, order |-> K,
   control |-> C, ready |-> <<>>, inflight |-> <<>>]
FreshParts(e, b, c, O, N, Q, D, F, R, W, P, K, C) ==
  /\ e \in Ends /\ b \in BOOLEAN /\ c \in CreditRecord /\ O \in [Dirs -> CreditRecord] /\ N \in [Dirs -> Nat]
  /\ Q \in [Dirs -> Quota] /\ D \in Data /\ F \in [StreamIds -> Flow] /\ R \in [StreamIds -> Recv]
  /\ W \in [StreamIds -> Writer] /\ P \in [Dirs -> Seq(StreamIds)] /\ K \in [StreamIds -> {0, 1}] /\ C \in Seq(Frame)

\* What a new session consists of.
LEMMA FreshDoes ==
  ASSUME NEW e, NEW b, NEW c, NEW O, NEW N, NEW Q, NEW D, NEW F, NEW R, NEW W, NEW P, NEW K, NEW C,
         FreshParts(e, b, c, O, N, Q, D, F, R, W, P, K, C),
         NEW y, y = Fresh(e, b, c, O, N, Q, D, F, R, W, P, K, C)
  PROVE  /\ y \in Session /\ y.me = e /\ y.closed = "open" /\ y.conn = c /\ y.quota = Q /\ y.data = D
         /\ y.recorded = {} /\ y.recvStreams = {} /\ y.recv = R /\ y.writer = W /\ y.pending = P
         /\ y.ready = <<>> /\ y.inflight = <<>>
<1>1. /\ y.me = e /\ y.closed = "open" /\ y.conn = c /\ y.quota = Q /\ y.data = D
      /\ y.recorded = {} /\ y.recvStreams = {} /\ y.recv = R /\ y.writer = W /\ y.pending = P
      /\ y.ready = <<>> /\ y.inflight = <<>> BY DEF Fresh
<1>2. PICK q, z : q = <<>> /\ z = {} OBVIOUS
<1>3. q \in Seq(StreamFrame) BY <1>2
<1>4. z \in SUBSET StreamIds /\ z \in SUBSET Dirs BY <1>2
<1>5. PICK o \in {"open", "fulfilled", "rejected"} : o = "open" OBVIOUS
<1>6. y = [me |-> e, closed |-> o, params |-> b,
           conn |-> c, opens |-> O, next |-> N, quota |-> Q, data |-> D,
           recorded |-> z, flow |-> F, streamFlow |-> z,
           sendStreams |-> z, recvStreams |-> z,
           recv |-> R, writer |-> W, pending |-> P, cancelled |-> z, order |-> K,
           control |-> C, ready |-> q, inflight |-> q] BY <1>2, <1>5, Zenon DEF Fresh
<1>7. y \in Session BY <1>3, <1>4, <1>6 DEF Session, FreshParts
<1>. QED BY <1>1, <1>7

\* A new session has its type and holds nothing.
LEMMA NewSessionIs ==
  ASSUME NEW e \in Ends, plan.limit \in Int, NEW y, y = NewSession(e)
  PROVE  /\ y \in Session /\ y.me = e /\ y.closed = "open"
         /\ y.conn.used = 0 /\ y.data.offset = 0 /\ y.data.consumed = 0 /\ y.data.max = ConnWindow
         /\ \A d \in Dirs : y.quota[d].max = plan.limit /\ y.quota[d].released = 0
         /\ y.recorded = {} /\ y.recvStreams = {} /\ y.ready = <<>> /\ y.inflight = <<>>
         /\ \A s \in StreamIds : /\ y.writer[s] = NoWriter /\ y.recv[s] = NoRecv
         /\ \A d \in Dirs : y.pending[d] = <<>>
<1>1. PICK b, c, O, N, Q, D : /\ b = FALSE /\ c = [used |-> 0, max |-> 0] /\ O = [d \in Dirs |-> [used |-> 0, max |-> 0]]
                              /\ N = [d \in Dirs |-> 0]
                              /\ Q = [d \in Dirs |-> [used |-> 0, max |-> plan.limit, released |-> 0]]
                              /\ D = [offset |-> 0, max |-> ConnWindow, consumed |-> 0] BY Zenon
<1>2. PICK F, R, W, P, K, C : /\ F = [s \in StreamIds |-> NoFlow] /\ R = [s \in StreamIds |-> NoRecv]
                              /\ W = [s \in StreamIds |-> NoWriter] /\ P = [d \in Dirs |-> <<>>]
                              /\ K = [s \in StreamIds |-> 0] /\ C = <<[type |-> "params"]>> BY Zenon
<1>3. y = Fresh(e, b, c, O, N, Q, D, F, R, W, P, K, C) BY <1>1, <1>2, Zenon DEF NewSession, Fresh
<1>4. b \in BOOLEAN /\ c \in CreditRecord /\ O \in [Dirs -> CreditRecord] /\ N \in [Dirs -> Nat]
  <2>1. b \in BOOLEAN BY <1>1
  <2>2. c \in CreditRecord BY <1>1 DEF CreditRecord
  <2>3. O \in [Dirs -> CreditRecord] BY <1>1 DEF CreditRecord
  <2>4. N \in [Dirs -> Nat] BY <1>1
  <2>. QED BY <2>1, <2>2, <2>3, <2>4
<1>5. Q \in [Dirs -> Quota] BY <1>1 DEF Quota
<1>6. ConnWindow \in Int BY JsAssumption
<1>7. D \in Data BY <1>1, <1>6 DEF Data
<1>8. F \in [StreamIds -> Flow] BY <1>2 DEF NoFlow, Flow
<1>9. PICK q : q = <<>> OBVIOUS
<1>10. q \in Seq(Nat) /\ q \in Seq(StreamIds) BY <1>9
<1>11. R \in [StreamIds -> Recv]
  <2>1. NoRecv = [queue |-> q, fin |-> FALSE, error |-> FALSE, terminal |-> FALSE, accepted |-> FALSE, replenished |-> FALSE,
                cancelled |-> FALSE] BY <1>9 DEF NoRecv
  <2>2. NoRecv \in Recv BY <1>10, <2>1 DEF Recv
  <2>. QED BY <1>2, <2>2
<1>12. W \in [StreamIds -> Writer] BY <1>2 DEF NoWriter, Writer, Phases
<1>13. P \in [Dirs -> Seq(StreamIds)] BY <1>2, <1>9, <1>10
<1>14. K \in [StreamIds -> {0, 1}] BY <1>2
<1>15. C \in Seq(Frame)
  <2>1. PICK f : f = [type |-> "params"] OBVIOUS
  <2>2. f \in Frame BY <2>1 DEF Frame
  <2>. QED BY <1>2, <2>1, <2>2
<1>16. FreshParts(e, b, c, O, N, Q, D, F, R, W, P, K, C)
  BY <1>4, <1>5, <1>7, <1>8, <1>11, <1>12, <1>13, <1>14, <1>15 DEF FreshParts
<1>17. /\ y \in Session /\ y.me = e /\ y.closed = "open" /\ y.conn = c /\ y.quota = Q /\ y.data = D
       /\ y.recorded = {} /\ y.recvStreams = {} /\ y.recv = R /\ y.writer = W /\ y.pending = P
       /\ y.ready = <<>> /\ y.inflight = <<>> BY <1>3, <1>16, FreshDoes
<1>18. y.conn.used = 0 /\ y.data.offset = 0 /\ y.data.consumed = 0 /\ y.data.max = ConnWindow BY <1>1, <1>17
<1>19. \A d \in Dirs : y.quota[d].max = plan.limit /\ y.quota[d].released = 0 BY <1>1, <1>17
<1>20. \A s \in StreamIds : y.writer[s] = NoWriter /\ y.recv[s] = NoRecv BY <1>2, <1>17
<1>21. \A d \in Dirs : y.pending[d] = <<>> BY <1>2, <1>17
<1>. QED BY <1>17, <1>18, <1>19, <1>20, <1>21

\* A new session satisfies the invariant of an end.
LEMMA NewSessionStarts ==
  ASSUME NEW e \in Ends, NEW l \in Int, plan.limit = l, NEW x, x = NewSession(e), NEW h, h = <<>>
  PROVE  x \in Session /\ x.me = e /\ EndInv(x, 0, h, l)
<1>1. /\ x \in Session /\ x.me = e /\ x.closed = "open"
      /\ x.conn.used = 0 /\ x.data.offset = 0 /\ x.data.consumed = 0 /\ x.data.max = ConnWindow
      /\ \A d \in Dirs : x.quota[d].max = plan.limit /\ x.quota[d].released = 0
      /\ x.recorded = {} /\ x.recvStreams = {} /\ x.ready = <<>> /\ x.inflight = <<>>
      /\ \A s \in StreamIds : /\ x.writer[s] = NoWriter /\ x.recv[s] = NoRecv
      /\ \A d \in Dirs : x.pending[d] = <<>> BY NewSessionIs
<1>2. \A s \in StreamIds : /\ x.writer[s].at = "none" /\ x.writer[s].held = 0 /\ Claimed(x.writer[s]) = 0
                           /\ x.recv[s].queue = <<>> /\ ~x.recv[s].accepted /\ ~x.recv[s].terminal
                           /\ ~x.recv[s].replenished BY <1>1 DEF NoWriter, NoRecv, Claimed
<1>3. Named(x) /\ Hands(x) /\ Sleepless(x) BY <1>2 DEF Named, Hands, Sleepless
<1>4. Framed(x) BY <1>1 DEF Framed
<1>5. Conserved(x, 0)
  <2>1. [s \in StreamIds |-> Claimed(x.writer[s])] = [s \in StreamIds |-> 0] BY <1>2
  <2>2. InHands(x) = 0 BY <2>1, NoSum DEF InHands
  <2>3. x.conn.used = 0 + InHands(x) BY <1>1, <2>2
  <2>. QED BY <2>3, Zenon DEF Conserved, InHands
<1>6. SendInv(x, 0) BY <1>3, <1>4, <1>5 DEF SendInv
<1>7. DataInv(x)
  <2>1. \A s \in StreamIds : Buffered(x.recv[s]) = 0
    <3>1. PICK q : q = <<>> OBVIOUS
    <3>2. q \in Seq(Int) BY <3>1
    <3>3. SumFunction(<< >>) = 0 BY <3>2, SumType
    <3>. QED BY <1>2, <3>3 DEF Buffered
  <2>2. [s \in StreamIds |-> Buffered(x.recv[s])] = [s \in StreamIds |-> 0] BY <2>1
  <2>3. InQueues(x) = 0 BY <2>2, NoSum DEF InQueues
  <2>4. ConnWindow \in Int BY JsAssumption
  <2>. QED BY <1>1, <2>3, <2>4 DEF DataInv, Missing, Windowed
<1>8. Seen(x) BY <1>1, <1>2 DEF Seen
<1>9. Waiting(x, h) BY <1>1 DEF Waiting
<1>10. Slots(x, l)
  <2>1. \A d \in Dirs : Freed(x, d) = {} BY <1>1 DEF Freed
  <2>2. \A d \in Dirs : Cardinality(Freed(x, d)) = 0 BY <2>1, FS_EmptySet
  <2>. QED BY <1>1, <2>2 DEF Slots
<1>11. IsInjective(h) /\ DOMAIN h = {} BY DEF IsInjective
<1>12. AdmitInv(x, h, l) BY <1>1, <1>8, <1>9, <1>10, <1>11 DEF AdmitInv
<1>. QED BY <1>1, <1>6, <1>7, <1>12 DEF EndInv

\* The history starts empty.
LEMMA NoHistoryIs ==
  NoHistory \in History /\ NoHistory.paid = 0 /\ NoHistory.handed = <<>>
<1>1. PICK q, z : q = <<>> /\ z = {} OBVIOUS
<1>2. q \in Seq(StreamIds) BY <1>1
<1>3. NoHistory = [put |-> [s \in StreamIds |-> 0], paid |-> 0, got |-> [s \in StreamIds |-> 0],
                   reset |-> z, trailed |-> z, handed |-> q, asked |-> FALSE] BY <1>1, Zenon DEF NoHistory
<1>4. z \in SUBSET StreamIds BY <1>1
<1>5. PICK u : u = [s \in StreamIds |-> 0] OBVIOUS
<1>6. u \in [StreamIds -> Int] BY <1>5
<1>7. NoHistory = [put |-> u, paid |-> 0, got |-> u, reset |-> z, trailed |-> z, handed |-> q, asked |-> FALSE]
  BY <1>3, <1>5, Zenon
<1>8. NoHistory \in History BY <1>2, <1>4, <1>6, <1>7 DEF History
<1>9. NoHistory.paid = 0 /\ NoHistory.handed = q BY <1>7
<1>. QED BY <1>1, <1>8, <1>9

\* The invariant holds at the start.
LEMMA InitHolds == Init => IInv
<1>. SUFFICES ASSUME Init PROVE IInv OBVIOUS
<1>1. /\ plan \in Plans /\ sess = [e \in Ends |-> NewSession(e)] /\ cut = FALSE
      /\ wire = [e \in Ends |-> <<>>] /\ hist = [e \in Ends |-> NoHistory] BY DEF Init
<1>2. PICK l \in Int : l = plan.limit BY <1>1, JsAssumption
<1>3. \A e \in Ends : sess[e] \in Session /\ sess[e].me = e /\ EndInv(sess[e], hist[e].paid, hist[e].handed, plan.limit)
  <2>. TAKE e \in Ends
  <2>1. PICK x, h : x = NewSession(e) /\ h = <<>> OBVIOUS
  <2>2. x \in Session /\ x.me = e /\ EndInv(x, 0, h, l) BY <1>2, <2>1, NewSessionStarts
  <2>3. sess[e] = x /\ hist[e] = NoHistory BY <1>1, <2>1
  <2>4. hist[e].paid = 0 /\ hist[e].handed = h BY <2>1, <2>3, NoHistoryIs
  <2>. QED BY <1>2, <2>2, <2>3, <2>4
<1>4. sess \in [Ends -> Session] BY <1>1, <1>3
<1>5. hist \in [Ends -> History] BY <1>1, NoHistoryIs
<1>6. wire \in [Ends -> Seq(Frame)]
  <2>1. PICK q : q = <<>> OBVIOUS
  <2>2. q \in Seq(Frame) BY <2>1
  <2>. QED BY <1>1, <2>1, <2>2
<1>7. TypeOK BY <1>1, <1>3, <1>4, <1>5, <1>6 DEF TypeOK
<1>. QED BY <1>3, <1>7 DEF IInv, EndInv

\* Every step keeps the invariant.
LEMMA NextKeeps == IInv /\ [Next]_vars => IInv'
<1>. SUFFICES ASSUME IInv, [Next]_vars PROVE IInv' OBVIOUS
<1>1. plan \in Plans /\ plan.streams \subseteq StreamIds /\ wire \in [Ends -> Seq(Frame)] /\ cut \in BOOLEAN
  BY DEF IInv, TypeOK, StreamIds
<1>2. ASSUME NEW e \in Ends, NEW s \in plan.streams,
             \/ CreateStream(e, s) \/ (\E n \in 1..plan.bytes[e] : Write(e, s, n)) \/ CloseWriter(e, s)
             \/ AbortWriter(e, s) \/ SetSendOrder(e, s) \/ Resume(e, s) \/ Read(e, s) \/ Cancel(e, s)
      PROVE  IInv'
  <2>1. s \in StreamIds BY <1>1
  <2>2. CASE CreateStream(e, s) BY <2>1, <2>2, CreateStreamKeeps
  <2>3. CASE \E n \in 1..plan.bytes[e] : Write(e, s, n)
    <3>1. PICK n \in 1..plan.bytes[e] : Write(e, s, n) BY <2>3
    <3>2. n \in Int /\ n > 0 OBVIOUS
    <3>. QED BY <2>1, <3>1, <3>2, WriteKeeps
  <2>4. CASE CloseWriter(e, s) BY <2>1, <2>4, CloseWriterKeeps
  <2>5. CASE AbortWriter(e, s) BY <2>1, <2>5, AbortWriterKeeps
  <2>6. CASE SetSendOrder(e, s) BY <2>1, <2>6, SetSendOrderKeeps
  <2>7. CASE Resume(e, s) BY <2>1, <2>7, ResumeKeeps
  <2>8. CASE Read(e, s) BY <2>1, <2>8, ReadKeeps
  <2>9. CASE Cancel(e, s) BY <2>1, <2>9, CancelKeeps
  <2>. QED BY <1>2, <2>2, <2>3, <2>4, <2>5, <2>6, <2>7, <2>8, <2>9
<1>3. ASSUME NEW e \in Ends, NEW d \in Dirs, Accept(e, d) \/ CancelAcceptor(e, d)
      PROVE  IInv' BY <1>3, AcceptKeeps, CancelAcceptorKeeps
<1>4. ASSUME NEW e \in Ends,
             \/ WriteControl(e) \/ TakeStream(e) \/ WriteDone(e) \/ Receive(e) \/ CloseSession(e)
             \/ TransportClose(e) \/ SocketClosed(e)
      PROVE  IInv'
  <2>1. CASE TransportClose(e) BY <1>1, <2>1, CutKeeps DEF TransportClose
  <2>. QED BY <1>4, <2>1, WriteControlKeeps, TakeStreamKeeps, WriteDoneKeeps, ReceiveKeeps,
              CloseSessionKeeps, SocketClosedKeeps
<1>5. CASE SocketFails
  <2>1. wire' = [e \in Ends |-> <<>>] /\ plan' = plan /\ sess' = sess /\ hist' = hist /\ cut' = TRUE
    BY <1>5 DEF SocketFails
  <2>2. PICK q : q = <<>> OBVIOUS
  <2>3. q \in Seq(Frame) BY <2>2
  <2>4. wire' \in [Ends -> Seq(Frame)] BY <2>1, <2>2, <2>3
  <2>. QED BY <2>1, <2>4, CutKeeps
<1>6. CASE UNCHANGED vars BY <1>1, <1>6, CutKeeps DEF vars
<1>. QED BY <1>2, <1>3, <1>4, <1>5, <1>6 DEF Next

(******************************* the theorems ******************************)

\* The invariant holds always.
LEMMA Inductive == Spec => []IInv
BY InitHolds, NextKeeps, PTL DEF Spec

\* Every variable has its type, and an end knows which one it is.
THEOREM Types == Spec => []TypeOK
<1>1. IInv => TypeOK BY DEF IInv
<1>. QED BY <1>1, Inductive, PTL

\* A writer that waits for credit and was not woken has none to go on with:
\* every frame and every release that gives credit wakes who waits for it.
THEOREM SleepersHaveNoCredit == Spec => []NoSleeper
<1>1. IInv => NoSleeper
  <2>. SUFFICES ASSUME IInv, NEW e \in Ends, NEW s \in StreamIds, sess[e].closed = "open", ~sess[e].writer[s].woken
                PROVE  /\ sess[e].writer[s].at = "conn" => TryClaim(sess[e].conn, 1) = 0
                       /\ sess[e].writer[s].at = "stream" => TryClaim(sess[e].flow[s], 1) = 0 BY DEF NoSleeper
  <2>1. Sleepless(sess[e]) BY DEF IInv, SendInv
  <2>. QED BY <2>1 DEF Sleepless
<1>. QED BY <1>1, Inductive, PTL

\* Connection credit that was claimed is on the wire or in a writer's hands.
THEOREM CreditIsConserved == Spec => []CreditConserved
<1>1. IInv => CreditConserved BY DEF IInv, SendInv, Conserved, CreditConserved
<1>. QED BY <1>1, Inductive, PTL

\* A byte received by an open session is in one receive queue or counted as
\* consumed; no byte is counted twice, by a teardown or after it either.
THEOREM BytesAreConsumedOnce == Spec => []ConsumedOnce
<1>1. IInv => ConsumedOnce
  <2>. SUFFICES ASSUME IInv, NEW e \in Ends, NEW x, x = sess[e]
                PROVE  /\ x.data.consumed + InQueues(x) <= x.data.offset
                       /\ x.closed = "open" => x.data.consumed + InQueues(x) = x.data.offset
                       /\ x.data.max <= x.data.consumed + ConnWindow BY DEF ConsumedOnce, InQueues
  <2>1. x \in Session /\ DataInv(x) BY DEF IInv, TypeOK
  <2>. QED BY <2>1, MissingType DEF DataInv, Missing, Windowed
<1>. QED BY <1>1, Inductive, PTL

\* The streams of one direction that were seen are as many as their indices.
Known(x, d) == {s \in x.recorded : s.dir = d}
Busy(x, d) ==
  {s \in x.recorded :
     s.dir = d /\ ~(x.recv[s].accepted /\ x.recv[s].terminal)
       /\ (s \in x.recvStreams \/ \E i \in DOMAIN x.pending[d] : x.pending[d][i] = s)}

\* The streams of a direction that were seen have different indices below the limit
\* that was announced, so they are no more than it.
LEMMA KnownBounded ==
  ASSUME NEW x \in Session, Seen(x), NEW d \in Dirs
  PROVE  /\ IsFiniteSet(Known(x, d))
         /\ Known(x, d) # {} => Cardinality(Known(x, d)) <= x.quota[d].max
<1>1. PICK m \in Int : m = x.quota[d].max BY DEF Session, Quota
<1>2. \A s \in Known(x, d) : s \in StreamIds /\ s.by \in Ends /\ s.by # x.me /\ s.dir = d /\ s.index \in 0..m - 1
  <2>. TAKE s \in Known(x, d)
  <2>1. s \in x.recorded /\ s.dir = d /\ s \in StreamIds BY DEF Known, Session
  <2>2. s.by # x.me /\ s.index < m BY <1>1, <2>1 DEF Seen
  <2>3. s \in [by : Ends, dir : Dirs, index : Nat] BY <2>1, JsAssumption
  <2>. QED BY <1>1, <2>1, <2>2, <2>3
<1>3. \A s, t \in Known(x, d) : s.index = t.index => s = t
  <2>. SUFFICES ASSUME NEW s \in Known(x, d), NEW t \in Known(x, d), s.index = t.index PROVE s = t OBVIOUS
  <2>1. s \in [by : Ends, dir : Dirs, index : Nat] /\ t \in [by : Ends, dir : Dirs, index : Nat] BY <1>2, JsAssumption
  <2>2. x.me \in Ends BY DEF Session
  <2>3. s.by = t.by /\ s.dir = t.dir BY <1>2, <2>2 DEF Ends
  <2>. QED BY <2>1, <2>3
<1>4. PICK f : f = [s \in Known(x, d) |-> s.index] OBVIOUS
<1>5. f \in Injection(Known(x, d), 0..m - 1) BY <1>2, <1>3, <1>4 DEF Injection, IsInjective
<1>6. IsFiniteSet(0..m - 1) /\ Cardinality(0..m - 1) = IF 0 > m - 1 THEN 0 ELSE m - 1 - 0 + 1 BY FS_Interval
<1>7. IsFiniteSet(Known(x, d)) /\ Cardinality(Known(x, d)) <= Cardinality(0..m - 1) BY <1>5, <1>6, FS_Injection
<1>8. Known(x, d) # {} => m > 0 BY <1>2
<1>. QED BY <1>1, <1>6, <1>7, <1>8

\* The streams that wait or have not ended are the ones seen whose slot did not go
\* back, hence no more than the limit of the configuration.
LEMMA BusyBounded ==
  ASSUME NEW x \in Session, NEW h, NEW l \in Int, l > 0, AdmitInv(x, h, l), NEW d \in Dirs
  PROVE  Cardinality(Busy(x, d)) <= l
<1>1. CASE x.closed # "open"
  <2>1. x.recvStreams = {} /\ x.pending[d] = <<>> BY <1>1 DEF AdmitInv
  <2>2. Busy(x, d) = {} BY <2>1 DEF Busy
  <2>. QED BY <2>2, FS_EmptySet
<1>2. CASE x.closed = "open"
  <2>1. Seen(x) /\ Waiting(x, h) /\ Slots(x, l) BY <1>2 DEF AdmitInv
  <2>2. Freed(x, d) \subseteq Known(x, d) BY DEF Freed, Known
  <2>3. Busy(x, d) \subseteq Known(x, d) \ Freed(x, d)
    <3>. SUFFICES ASSUME NEW s \in Busy(x, d) PROVE s \in Known(x, d) /\ s \notin Freed(x, d) OBVIOUS
    <3>1. s \in x.recorded /\ s.dir = d /\ s \in StreamIds BY DEF Busy, Session
    <3>2. s.by # x.me BY <2>1, <3>1 DEF Seen
    <3>3. ~x.recv[s].replenished BY <2>1, <3>1, <3>2 DEF Seen, Busy
    <3>4. s \in x.recvStreams \/ x.recv[s].terminal
      <4>1. CASE \E i \in DOMAIN x.pending[d] : x.pending[d][i] = s BY <2>1, <4>1 DEF Waiting
      <4>. QED BY <4>1 DEF Busy
    <3>. QED BY <3>1, <3>3, <3>4 DEF Known, Freed
  <2>4. IsFiniteSet(Known(x, d)) /\ (Known(x, d) # {} => Cardinality(Known(x, d)) <= x.quota[d].max)
    BY <2>1, KnownBounded
  <2>5. /\ IsFiniteSet(Known(x, d) \ Freed(x, d))
        /\ Cardinality(Known(x, d) \ Freed(x, d)) = Cardinality(Known(x, d)) - Cardinality(Freed(x, d))
    <3>1. Known(x, d) \cap Freed(x, d) = Freed(x, d) BY <2>2
    <3>2. /\ IsFiniteSet(Known(x, d) \ Freed(x, d))
          /\ Cardinality(Known(x, d) \ Freed(x, d))
               = Cardinality(Known(x, d)) - Cardinality(Known(x, d) \cap Freed(x, d)) BY <2>4, FS_Difference
    <3>. QED BY <3>1, <3>2
  <2>6. Cardinality(Busy(x, d)) <= Cardinality(Known(x, d) \ Freed(x, d)) /\ Cardinality(Busy(x, d)) \in Nat
    <3>1. IsFiniteSet(Busy(x, d)) /\ Cardinality(Busy(x, d)) <= Cardinality(Known(x, d) \ Freed(x, d))
      BY <2>3, <2>5, FS_Subset
    <3>. QED BY <3>1, FS_CardinalityType
  <2>7. Cardinality(Known(x, d)) \in Nat /\ Cardinality(Freed(x, d)) \in Nat
    <3>1. IsFiniteSet(Freed(x, d)) BY <2>2, <2>4, FS_Subset
    <3>. QED BY <2>4, <3>1, FS_CardinalityType
  <2>8. /\ x.quota[d].max \in Int /\ x.quota[d].released \in Int /\ x.quota[d].released >= 0
        /\ x.quota[d].max + x.quota[d].released = l + Cardinality(Freed(x, d)) BY <2>1 DEF Session, Quota, Slots
  <2>9. CASE Known(x, d) = {}
    <3>1. Busy(x, d) = {} BY <2>3, <2>9
    <3>. QED BY <3>1, FS_EmptySet
  <2>10. CASE Known(x, d) # {} BY <2>4, <2>5, <2>6, <2>7, <2>8, <2>10
  <2>. QED BY <2>9, <2>10
<1>. QED BY <1>1, <1>2

\* A stream of the peer is handed to the application once, and the streams that
\* wait or have not ended are never more than the limit that was announced: a
\* slot goes back to the peer once per stream, whichever of FIN, RESET_STREAM,
\* cancel and refusal ended it.
THEOREM StreamsAreAdmitted == Spec => []Admitted
<1>1. IInv => AcceptedOnce BY DEF IInv, AdmitInv, AcceptedOnce
<1>2. IInv => PendingBounded
  <2>. SUFFICES ASSUME IInv, NEW e \in Ends, NEW d \in Dirs
                PROVE  Cardinality(Busy(sess[e], d)) <= plan.limit BY DEF PendingBounded, Busy
  <2>1. PICK x, h, l : x = sess[e] /\ h = hist[e].handed /\ l = plan.limit OBVIOUS
  <2>2. x \in Session /\ l \in Int /\ l > 0 /\ AdmitInv(x, h, l) BY <2>1, EndFacts DEF EndInv
  <2>. QED BY <2>1, <2>2, BusyBounded
<1>. QED BY <1>1, <1>2, Inductive, PTL DEF Admitted

=============================================================================
