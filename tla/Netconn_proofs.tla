--------------------------- MODULE Netconn_proofs ---------------------------
(***************************************************************************)
(* Proofs about the sequential interface of lwIP: for any number of        *)
(* netconns, threads, calls and pieces of data, CallsSane holds.           *)
(*                                                                         *)
(* The inductive invariant has two layers.  Local relates one netconn k to *)
(* the call m that its owner is in, and p, whether the message of that     *)
(* call is still in the mailbox of the stack; it is a conjunction of named *)
(* parts.  NetInv says how the netconns, the threads and the mailbox hang  *)
(* together, and that Local holds of every netconn.  First come lemmas     *)
(* about one netconn, one for each thing the code does to it; then what a  *)
(* step leaves alone (Frame); then the steps of Netconn, one lemma each.   *)
(***************************************************************************)
EXTENDS Netconn, Lemmas, FiniteSetTheorems

-----------------------------------------------------------------------------
(* One netconn and the call of its owner *)

Answers == {"ok", "soft", "fatal"}
Ops == Plain \cup {"newconn", "send", "group", "close", "delete", "write", "recv"}

\* The types, with the fields listed by the records of the model.
NetFields == DOMAIN Unused
IsNetconn(k) ==
    /\ DOMAIN k = NetFields
    /\ k.used \in BOOLEAN /\ k.owner \in Threads \cup {Nobody} /\ k.type \in {"TCP", "UDP"}
    /\ k.nonblocking \in BOOLEAN /\ k.connecting \in BOOLEAN
    /\ k.state \in {"NONE", "WRITE", "LISTEN", "CONNECT", "CLOSE"}
    /\ k.pcb \in {"none", "new", "udp", "listen", "syn", "open"} /\ k.lastErr \in Answers
    /\ k.current \in Threads \cup {Nobody} /\ k.sem \in Nat /\ k.offset \in Nat
    /\ k.boxes \in SUBSET {"recv", "accept"}
    /\ k.recvmbox \in Seq(Nat) /\ k.acceptmbox \in Seq(Conns)
    /\ k.rx \in BOOLEAN /\ k.given \in Nat /\ k.refused \in Nat
    /\ k.fin \in {"no", "kept", "told", "lost"}
    /\ k.unread \in Int /\ k.space \in Nat /\ k.read \in Nat
CallFields == DOMAIN Resting
IsCall(m) ==
    /\ DOMAIN m = CallFields
    /\ m.pc \in {"idle", "waits", "looked", "taken"} /\ m.conn \in Conns \cup {Nobody}
    /\ m.op \in Ops \cup {"none", "accept"} /\ m.err \in Answers \cup {"unset"}
    /\ m.size \in Nat /\ m.len \in Nat /\ m.queued \in Nat
    /\ m.dontblock \in BOOLEAN /\ m.got \in Nat

\* What a call is about: netconn_recv_data has a piece, or the end (0), to tell the
\* stack about from the fetch on, until the call returns; p for its message is posted.
Waits(m) == m.pc = "waits"
Receives(m) == m.op = "recv" /\ m.pc \in {"taken", "waits"}
HasPiece(m) == Receives(m) /\ m.got # 0
Has(m) == IF HasPiece(m) THEN 1 ELSE 0
HasUntold(m, p) == IF HasPiece(m) /\ (m.pc = "taken" \/ p) THEN 1 ELSE 0
HasRefused(k) == IF k.refused # 0 THEN 1 ELSE 0
Base(k, m) == k.read + Has(m)

\* A call that waits is posted, kept by the netconn, or answered, one of the three.
Woken(k, m, p) ==
    /\ p \in BOOLEAN /\ (p => Waits(m))
    /\ k.sem \in {0, 1}
    /\ k.current # Nobody => k.current = k.owner /\ Waits(m) /\ ~p /\ k.sem = 0
    /\ k.sem = 1 => Waits(m) /\ ~p /\ (m.op # "delete" => m.err \in Answers)
    /\ Waits(m) => p \/ k.current # Nobody \/ k.sem = 1

\* What the netconn does is what its kept message asks; what of a write has been taken
\* is what the caller will be told.
Busy(k, m) ==
    /\ (k.current # Nobody) <=> KeepsMessage(k)
    /\ k.state = "WRITE" => m.op = "write" /\ k.offset < m.size /\ m.queued = k.offset
    /\ k.state = "CLOSE" => m.op \in {"close", "delete"}
    /\ k.state = "CONNECT" /\ ~k.connecting => m.op = "connect"
    /\ k.pcb # "none" /\ k.offset > 0 => k.state = "WRITE"

\* A write goes on only on a connection, and only for a caller who lets it wait.
Blocks(k, m) == k.state = "WRITE" => k.pcb = "open" /\ ~m.dontblock

\* What goes with the states of the pcb: its type, the mailboxes, the receive callback.
Shape(k) ==
    /\ ~k.used => k = Unused
    /\ k.pcb # "none" => k.used
    /\ (k.state = "CONNECT") <=> (k.pcb = "syn")
    /\ (k.state = "LISTEN") <=> (k.pcb = "listen")
    /\ k.state = "CLOSE" => k.pcb = "open"
    /\ (k.pcb = "udp" => k.type = "UDP") /\ (k.pcb \notin {"none", "udp"} => k.type = "TCP")
    /\ (k.state = "CLOSE") <=> ~k.rx
    /\ ~k.rx => k.recvmbox = <<>> /\ k.refused = 0
    /\ k.pcb = "listen" => k.boxes = {"accept"}
    /\ k.pcb = "none" => k.boxes \in {{}, {"recv"}}
    /\ k.pcb \in {"new", "udp", "syn", "open"} => k.boxes = IF k.rx THEN {"recv"} ELSE {}
    /\ k.acceptmbox # <<>> => k.pcb = "listen"
    /\ k.pcb # "open" =>
          k.given = 0 /\ k.refused = 0 /\ k.fin = "no" /\ k.unread = 0 /\ k.rx

\* Before there is a pcb, and after it is gone: nothing to read, and an error to return.
Made(k, m) ==
    /\ m.pc # "idle" => k.used
    /\ m.op = "newconn" => /\ Waits(m)
                           /\ k.used /\ k.state = "NONE" /\ k.boxes = {"recv"}
                           /\ k.offset = 0 /\ k.pcb \in {"none", "new", "udp"}
                           /\ (k.sem = 0 => k.pcb = "none")
                           /\ (k.sem = 1 => (m.err = "ok" <=> k.pcb # "none"))
    /\ k.pcb \in {"new", "syn", "listen"} \/ (m.op = "newconn" /\ k.pcb = "none") =>
          k.recvmbox = <<>> /\ k.read = 0 /\ ~Receives(m)
    /\ k.used /\ k.pcb = "none" /\ "recv" \in k.boxes /\ m.op # "newconn" => k.lastErr = "fatal"
    /\ k.sem = 1 /\ m.op = "delete" => k.pcb = "none" /\ k.boxes = {}

\* A thread that has looked will not wait for ever at a netconn that has failed.
Sees(k, m) ==
    m.pc = "looked" =>
        /\ m.op \in k.boxes
        /\ (m.op = "recv" /\ k.recvmbox = <<>> => k.lastErr # "fatal")

\* A mailbox holds n pieces in order, then only ends.
Run(q, base, n) == \A i \in 1 .. Len(q) : q[i] = IF i <= n THEN base + i ELSE 0

\* The pieces: read, taken by the call, n in the mailbox, refused; and of the window as
\* much is taken as the stack has not been told is free.
InLine(k, m, p, n) ==
    /\ n \in 0 .. Len(k.recvmbox) /\ Run(k.recvmbox, Base(k, m), n)
    /\ HasPiece(m) => m.got = k.read + 1
    /\ k.refused # 0 => k.refused = Base(k, m) + n + 1 /\ k.fin \in {"no", "kept"}
    /\ k.fin = "kept" => k.refused # 0
    /\ k.pcb = "open" /\ k.fin \in {"no", "kept"} =>
          n = Len(k.recvmbox) /\ (Receives(m) => m.got # 0)
    /\ k.pcb = "open" /\ k.rx => k.given = Base(k, m) + n + HasRefused(k)
    /\ Receives(m) /\ m.got = 0 => n = 0
    /\ k.pcb = "open" =>
          k.unread = n + HasUntold(m, p) + HasRefused(k)
Pieces(k, m, p) == k.type = "TCP" => \E n \in Nat : InLine(k, m, p, n)

\* What is told of a write.
Tells(k, m, p) ==
    m.op = "write" =>
        /\ m.size > 0
        /\ p => m.queued = 0
        /\ k.sem = 1 => IF m.err = "ok" THEN m.queued = (IF m.dontblock THEN m.len ELSE m.size)
                        ELSE k.pcb # "none" => m.queued = 0

\* The local invariant.
Local(k, m, p) ==
    /\ IsNetconn(k) /\ IsCall(m)
    /\ Woken(k, m, p) /\ Busy(k, m) /\ Blocks(k, m) /\ Shape(k) /\ Made(k, m) /\ Sees(k, m)
    /\ Pieces(k, m, p) /\ Tells(k, m, p)

\* A write that do_writemore goes on with, whether it may be kept or not.
Working(k, m) ==
    /\ IsNetconn(k) /\ IsCall(m)
    /\ Woken(k, m, FALSE) /\ Busy(k, m) /\ Shape(k) /\ Made(k, m) /\ Sees(k, m)
    /\ Pieces(k, m, FALSE) /\ Tells(k, m, FALSE)
    /\ k.state = "WRITE" /\ k.pcb \in {"new", "open"}
    /\ m.dontblock \/ k.pcb = "new" => k.offset = 0

\* What a step leaves as it is.
Alike(k, u) ==
    u.used = k.used /\ u.owner = k.owner /\ u.type = k.type /\ u.acceptmbox = k.acceptmbox
Owned(k, u) == u.used = k.used /\ u.owner = k.owner /\ u.type = k.type
Kin(k, u) == u.used = k.used /\ u.type = k.type /\ u.acceptmbox = k.acceptmbox
Emptied(k, u) == u.used = k.used /\ u.owner = k.owner /\ u.type = k.type /\ u.acceptmbox = <<>>
SameFlow(k, u) ==
    /\ u.recvmbox = k.recvmbox /\ u.rx = k.rx /\ u.given = k.given /\ u.refused = k.refused
    /\ u.fin = k.fin /\ u.unread = k.unread /\ u.space = k.space /\ u.read = k.read
SameCall(m, n) == n.pc = m.pc /\ n.conn = m.conn /\ n.op = m.op

\* Nobody is no thread, no netconn; the sizes.
LEMMA NobodyElse == Nobody \notin Threads /\ Nobody \notin Conns /\ RecvBox \in Nat \ {0}
                     /\ SndBuf \in Nat
  BY NetconnAssumption

\* The fields of a netconn.
LEMMA NetFieldsAre ==
  NetFields = {"used", "owner", "type", "nonblocking", "connecting", "state", "pcb", "lastErr",
               "current", "sem", "offset", "boxes", "recvmbox", "acceptmbox", "rx", "given",
               "refused", "fin", "unread", "space", "read"}
  BY DEF NetFields, Unused, Fresh

\* The fields of a call.
LEMMA CallFieldsAre ==
  CallFields = {"pc", "conn", "op", "err", "size", "len", "queued", "dontblock", "got"}
  BY DEF CallFields, Resting

\* netconn_drain, field by field: the mailboxes go, and with them the pieces.
LEMMA DrainedIs ==
  ASSUME NEW k, IsNetconn(k)
  PROVE  LET u == Drained(k) IN
         /\ DOMAIN u = NetFields /\ u.used = k.used /\ u.owner = k.owner /\ u.type = k.type
         /\ u.nonblocking = k.nonblocking /\ u.connecting = k.connecting /\ u.state = k.state
         /\ u.pcb = k.pcb /\ u.lastErr = k.lastErr /\ u.current = k.current /\ u.sem = k.sem
         /\ u.offset = k.offset /\ u.boxes = {} /\ u.recvmbox = <<>> /\ u.acceptmbox = <<>>
         /\ u.rx = k.rx /\ u.given = k.given /\ u.refused = k.refused /\ u.fin = k.fin
         /\ u.space = k.space /\ u.read = k.read
  <1> DEFINE pieces == Cardinality({i \in 1..Len(k.recvmbox) : k.recvmbox[i] # 0})
             x == IF k.pcb = "none" THEN k.unread ELSE k.unread - pieces
             u == [k EXCEPT !.boxes = {}, !.recvmbox = <<>>, !.acceptmbox = <<>>, !.unread = x]
  <1>1. Drained(k) = u
    BY DEF Drained
  <1> HIDE DEF x
  <1> QED
    BY <1>1, NetFieldsAre DEF IsNetconn

\* A netconn after SafeErr with an error that passes.
Heard(k, u) ==
    /\ DOMAIN u = NetFields /\ u.used = k.used /\ u.owner = k.owner /\ u.type = k.type
    /\ u.nonblocking = k.nonblocking /\ u.connecting = k.connecting /\ u.state = k.state
    /\ u.pcb = k.pcb /\ u.current = k.current /\ u.sem = k.sem /\ u.offset = k.offset
    /\ u.boxes = k.boxes /\ u.recvmbox = k.recvmbox /\ u.acceptmbox = k.acceptmbox
    /\ u.rx = k.rx /\ u.given = k.given /\ u.refused = k.refused /\ u.fin = k.fin
    /\ u.unread = k.unread /\ u.space = k.space /\ u.read = k.read
    /\ u.lastErr \in Answers /\ (u.lastErr = "fatal" <=> k.lastErr = "fatal")

\* An error that passes keeps a fatal one.
LEMMA HeardIs ==
  ASSUME NEW k, DOMAIN k = NetFields, k.lastErr \in Answers, NEW e \in {"ok", "soft"}
  PROVE  Heard(k, SafeErr(k, e))
  <1> DEFINE x == IF k.lastErr = "fatal" THEN k.lastErr ELSE e
             u == [k EXCEPT !.lastErr = x]
  <1>1. SafeErr(k, e) = u
    BY DEF SafeErr
  <1>2. x \in Answers /\ (x = "fatal" <=> k.lastErr = "fatal")
    BY DEF Answers
  <1> HIDE DEF x
  <1> QED
    BY <1>1, <1>2, NetFieldsAre DEF Heard

\* A mailbox after a post.
LEMMA AppendIs ==
  ASSUME NEW q \in Seq(Nat), NEW x \in Nat
  PROVE  /\ Append(q, x) \in Seq(Nat) /\ Append(q, x) # <<>> /\ Len(q) \in Nat
         /\ Len(Append(q, x)) = Len(q) + 1
         /\ \A i \in 1 .. Len(q) + 1 : Append(q, x)[i] = IF i <= Len(q) THEN q[i] ELSE x
  OBVIOUS

\* An end after the pieces, or the next piece when there is no end yet.
LEMMA RunOn ==
  ASSUME NEW q \in Seq(Nat), NEW b \in Nat, NEW n \in 0 .. Len(q), Run(q, b, n)
  PROVE  /\ Run(Append(q, 0), b, n) /\ n \in 0 .. Len(Append(q, 0))
         /\ n = Len(q) => \A x \in Nat : x = b + n + 1 =>
                          /\ Run(Append(q, x), b, n + 1) /\ n + 1 \in 0 .. Len(Append(q, x))
                          /\ Len(Append(q, x)) = n + 1
  <1>1. Run(Append(q, 0), b, n) /\ n \in 0 .. Len(Append(q, 0))
    BY AppendIs DEF Run
  <1>2. ASSUME n = Len(q), NEW x \in Nat, x = b + n + 1
        PROVE  /\ Run(Append(q, x), b, n + 1) /\ n + 1 \in 0 .. Len(Append(q, x))
               /\ Len(Append(q, x)) = n + 1
    BY <1>2, AppendIs DEF Run
  <1> QED
    BY <1>1, <1>2

\* The first of a mailbox is the next piece, or an end with only ends behind it.
LEMMA RunOff ==
  ASSUME NEW q \in Seq(Nat), NEW b \in Nat, NEW n \in 0 .. Len(q), Run(q, b, n), q # <<>>
  PROVE  /\ Tail(q) \in Seq(Nat) /\ Head(q) \in Nat
         /\ n > 0 => Head(q) = b + 1 /\ Run(Tail(q), b + 1, n - 1)
              /\ n - 1 \in 0 .. Len(Tail(q))
         /\ n = 0 => Head(q) = 0 /\ \A c \in Nat : Run(Tail(q), c, 0)
  <1>1. /\ Tail(q) \in Seq(Nat) /\ Head(q) \in Nat /\ Head(q) = q[1] /\ Len(q) \in Nat \ {0}
        /\ Len(Tail(q)) = Len(q) - 1
        /\ \A i \in 1 .. Len(q) - 1 : Tail(q)[i] = q[i + 1]
    OBVIOUS
  <1> QED
    BY <1>1 DEF Run

\* A message that is answered at once.
LEMMA AnswerKeeps ==
  ASSUME NEW k, NEW m, NEW e \in Answers, Local(k, m, TRUE),
         m.op \notin {"newconn", "recv", "delete"}, m.op = "write" => e # "ok"
  PROVE  /\ Local(Signal(k), [m EXCEPT !.err = e], FALSE)
         /\ Alike(k, Signal(k))
         /\ SameCall(m, [m EXCEPT !.err = e])
  <1> DEFINE u == Signal(k)
             n == [m EXCEPT !.err = e]
  <1> SUFFICES Local(u, n, FALSE) /\ Alike(k, u) /\ SameCall(m, n)
    OBVIOUS
  <1> USE NetFieldsAre, CallFieldsAre DEF Alike, SameFlow
  <1>1. /\ Alike(k, u) /\ u.nonblocking = k.nonblocking /\ SameFlow(k, u)
        /\ u.connecting = k.connecting /\ u.state = k.state /\ u.pcb = k.pcb
        /\ u.lastErr = k.lastErr /\ u.current = k.current /\ u.sem = k.sem + 1
        /\ u.offset = k.offset /\ u.boxes = k.boxes /\ DOMAIN u = NetFields
    BY DEF Local, IsNetconn, u, Signal
  <1>2. /\ n.pc = m.pc /\ n.conn = m.conn /\ n.op = m.op /\ n.err = e /\ n.size = m.size
        /\ n.len = m.len /\ n.queued = m.queued /\ n.dontblock = m.dontblock /\ n.got = m.got
        /\ DOMAIN n = CallFields
    BY DEF Local, IsCall, n, Signal
  <1> HIDE DEF u, n
  <1>3. /\ IsNetconn(k) /\ IsCall(m) /\ Woken(k, m, TRUE) /\ Busy(k, m) /\ Blocks(k, m)
        /\ Shape(k) /\ Made(k, m) /\ Sees(k, m) /\ Pieces(k, m, TRUE) /\ Tells(k, m, TRUE)
    BY DEF Local
  <1>4. IsNetconn(u) /\ IsCall(n)
    <2>1. IsNetconn(u)
      BY <1>1, <1>3 DEF IsNetconn, Answers
    <2>2. IsCall(n)
      BY <1>2, <1>3 DEF IsCall, Answers
    <2> QED
      BY <2>1, <2>2
  <1>5. k.sem = 0 /\ k.current = Nobody /\ Waits(m) /\ k.used
    BY <1>3 DEF Woken, Made, Waits
  <1>6. Woken(u, n, FALSE)
    BY <1>1, <1>2, <1>3, <1>5 DEF IsNetconn, IsCall, Woken, Waits, Answers
  <1>7. Busy(u, n)
    BY <1>1, <1>2, <1>3, <1>5 DEF IsNetconn, IsCall, Busy, KeepsMessage
  <1>8. Blocks(u, n)
    BY <1>1, <1>2, <1>3, <1>5 DEF IsNetconn, IsCall, Blocks
  <1>9. Shape(u)
    BY <1>1, <1>2, <1>3, <1>5, SMTT(30) DEF IsNetconn, IsCall, Shape
  <1>10. Made(u, n)
    BY <1>1, <1>2, <1>3, <1>5 DEF IsNetconn, IsCall, Made, Waits, Receives, Answers
  <1>11. Sees(u, n)
    BY <1>1, <1>2, <1>3, <1>5 DEF IsNetconn, IsCall, Sees, Waits
  <1>12. Pieces(u, n, FALSE)
    BY <1>1, <1>2, <1>3, <1>5, SMTT(30) DEF Pieces, InLine, Base, Has, HasUntold, HasRefused,
          HasPiece, Receives, Waits, IsNetconn, Woken
  <1>13. Tells(u, n, FALSE)
    BY <1>1, <1>2, <1>3, <1>5 DEF IsNetconn, IsCall, Tells
  <1> QED
    BY <1>1, <1>2, <1>4, <1>5, <1>6, <1>7, <1>8, <1>9,
       <1>10, <1>11, <1>12, <1>13 DEF Local, SameCall, Emptied, Owned, Kin

\* do_newconn: with a pcb and without memory for it.
LEMMA NewKeeps ==
  ASSUME NEW k, NEW m, NEW e \in {"ok", "soft"}, Local(k, m, TRUE), m.op = "newconn",
         NEW pcb \in {"none", "new", "udp"}, e = "soft" <=> pcb = "none",
         pcb = "udp" => k.type = "UDP", pcb = "new" => k.type = "TCP"
  PROVE  /\ Local(Signal([k EXCEPT !.pcb = pcb]), [m EXCEPT !.err = e], FALSE)
         /\ Alike(k, Signal([k EXCEPT !.pcb = pcb]))
         /\ SameCall(m, [m EXCEPT !.err = e])
  <1> DEFINE u == Signal([k EXCEPT !.pcb = pcb])
             n == [m EXCEPT !.err = e]
  <1> SUFFICES Local(u, n, FALSE) /\ Alike(k, u) /\ SameCall(m, n)
    OBVIOUS
  <1> USE NetFieldsAre, CallFieldsAre DEF Alike, SameFlow
  <1>1. /\ Alike(k, u) /\ u.nonblocking = k.nonblocking /\ SameFlow(k, u)
        /\ u.connecting = k.connecting /\ u.state = k.state /\ u.pcb = pcb
             /\ u.lastErr = k.lastErr
        /\ u.current = k.current /\ u.sem = k.sem + 1 /\ u.offset = k.offset
             /\ u.boxes = k.boxes
        /\ DOMAIN u = NetFields
    BY DEF Local, IsNetconn, u, Signal
  <1>2. /\ n.pc = m.pc /\ n.conn = m.conn /\ n.op = m.op /\ n.err = e /\ n.size = m.size
        /\ n.len = m.len /\ n.queued = m.queued /\ n.dontblock = m.dontblock /\ n.got = m.got
        /\ DOMAIN n = CallFields
    BY DEF Local, IsCall, n, Signal
  <1> HIDE DEF u, n
  <1>3. /\ IsNetconn(k) /\ IsCall(m) /\ Woken(k, m, TRUE) /\ Busy(k, m) /\ Blocks(k, m)
        /\ Shape(k) /\ Made(k, m) /\ Sees(k, m) /\ Pieces(k, m, TRUE) /\ Tells(k, m, TRUE)
    BY DEF Local
  <1>4. IsNetconn(u) /\ IsCall(n)
    <2>1. IsNetconn(u)
      BY <1>1, <1>3 DEF IsNetconn, Answers
    <2>2. IsCall(n)
      BY <1>2, <1>3 DEF IsCall, Answers
    <2> QED
      BY <2>1, <2>2
  <1>5. k.sem = 0 /\ k.current = Nobody /\ Waits(m) /\ k.used /\ k.pcb = "none" /\ k.rx
        /\ k.boxes = {"recv"} /\ k.offset = 0 /\ k.state = "NONE"
    BY <1>3 DEF Woken, Made, Shape, Waits
  <1>6. Woken(u, n, FALSE)
    BY <1>1, <1>2, <1>3, <1>5 DEF IsNetconn, IsCall, Woken, Waits, Answers
  <1>7. Busy(u, n)
    BY <1>1, <1>2, <1>3, <1>5 DEF IsNetconn, IsCall, Busy, KeepsMessage
  <1>8. Blocks(u, n)
    BY <1>1, <1>2, <1>3, <1>5 DEF IsNetconn, IsCall, Blocks
  <1>9. Shape(u)
    BY <1>1, <1>2, <1>3, <1>5 DEF IsNetconn, IsCall, Shape
  <1>10. Made(u, n)
    BY <1>1, <1>2, <1>3, <1>5 DEF IsNetconn, IsCall, Made, Waits, Receives, Answers
  <1>11. Sees(u, n)
    BY <1>1, <1>2, <1>3, <1>5 DEF IsNetconn, IsCall, Sees, Waits
  <1>12. Pieces(u, n, FALSE)
    BY <1>1, <1>2, <1>3, <1>5 DEF Pieces, InLine, Base, Has, HasUntold, HasRefused,
          HasPiece, Receives, Waits, IsNetconn, Woken
  <1>13. Tells(u, n, FALSE)
    BY <1>1, <1>2, <1>3, <1>5 DEF IsNetconn, IsCall, Tells
  <1> QED
    BY <1>1, <1>2, <1>4, <1>5, <1>6, <1>7, <1>8, <1>9,
       <1>10, <1>11, <1>12, <1>13 DEF Local, SameCall, Emptied, Owned, Kin

\* do_connect of a new connection: kept, or answered at once if it must not block.
LEMMA ConnectKeeps ==
  ASSUME NEW k, NEW m, Local(k, m, TRUE), m.op = "connect", k.pcb = "new", k.state = "NONE",
         k.owner # Nobody,
         ~k.nonblocking
  PROVE  /\ Local([k EXCEPT !.state = "CONNECT", !.pcb = "syn", !.connecting = k.nonblocking,
              !.current = k.owner], m, FALSE)
         /\ Alike(k, [k EXCEPT !.state = "CONNECT", !.pcb = "syn",
              !.connecting = k.nonblocking, !.current = k.owner])
  <1> DEFINE u == [k EXCEPT !.state = "CONNECT", !.pcb = "syn", !.connecting = k.nonblocking,
                    !.current = k.owner]
  <1> SUFFICES Local(u, m, FALSE) /\ Alike(k, u)
    OBVIOUS
  <1> USE NetFieldsAre, CallFieldsAre DEF Alike, SameFlow
  <1>1. /\ Alike(k, u) /\ u.nonblocking = k.nonblocking /\ SameFlow(k, u)
        /\ u.connecting = k.nonblocking /\ u.state = "CONNECT" /\ u.pcb = "syn"
        /\ u.lastErr = k.lastErr /\ u.current = k.owner /\ u.sem = k.sem /\ u.offset = k.offset
        /\ u.boxes = k.boxes /\ u.connecting \in BOOLEAN /\ DOMAIN u = NetFields
    BY DEF Local, IsNetconn, u
  <1> HIDE DEF u
  <1>3. /\ IsNetconn(k) /\ IsCall(m) /\ Woken(k, m, TRUE) /\ Busy(k, m) /\ Blocks(k, m)
        /\ Shape(k) /\ Made(k, m) /\ Sees(k, m) /\ Pieces(k, m, TRUE) /\ Tells(k, m, TRUE)
    BY DEF Local
  <1>4. IsNetconn(u) /\ IsCall(m)
    <2>1. IsNetconn(u)
      BY <1>1, <1>3 DEF IsNetconn, Answers
    <2>2. IsCall(m)
      BY <1>3 DEF IsCall, Answers
    <2> QED
      BY <2>1, <2>2
  <1>5. k.sem = 0 /\ k.current = Nobody /\ Waits(m) /\ k.used
    BY <1>3 DEF Woken, Made, Waits
  <1>6. Woken(u, m, FALSE)
    BY <1>1, <1>3, <1>5 DEF IsNetconn, IsCall, Woken, Waits, Answers
  <1>7. Busy(u, m)
    BY <1>1, <1>3, <1>5 DEF IsNetconn, IsCall, Busy, KeepsMessage
  <1>8. Blocks(u, m)
    BY <1>1, <1>3, <1>5 DEF IsNetconn, IsCall, Blocks
  <1>9. Shape(u)
    BY <1>1, <1>3, <1>5 DEF IsNetconn, IsCall, Shape
  <1>10. Made(u, m)
    BY <1>1, <1>3, <1>5 DEF IsNetconn, IsCall, Made, Waits, Receives, Answers
  <1>11. Sees(u, m)
    BY <1>1, <1>3, <1>5 DEF IsNetconn, IsCall, Sees, Waits
  <1>12. Pieces(u, m, FALSE)
    BY <1>1, <1>3, <1>5 DEF Pieces, InLine, Base, Has, HasUntold, HasRefused,
          HasPiece, Receives, Waits, IsNetconn, Woken
  <1>13. Tells(u, m, FALSE)
    BY <1>1, <1>3, <1>5 DEF IsNetconn, IsCall, Tells
  <1> QED
    BY <1>1, <1>4, <1>5, <1>6, <1>7, <1>8, <1>9,
       <1>10, <1>11, <1>12, <1>13 DEF Local, SameCall, Emptied, Owned, Kin

\* The same on a netconn that must not block.
LEMMA ConnectingKeeps ==
  ASSUME NEW k, NEW m, Local(k, m, TRUE), m.op = "connect", k.pcb = "new", k.state = "NONE",
         k.nonblocking
  PROVE  /\ Local(Signal([k EXCEPT !.state = "CONNECT", !.pcb = "syn",
              !.connecting = k.nonblocking]), [m EXCEPT !.err = "soft"], FALSE)
         /\ Alike(k, Signal([k EXCEPT !.state = "CONNECT", !.pcb = "syn",
              !.connecting = k.nonblocking]))
         /\ SameCall(m, [m EXCEPT !.err = "soft"])
  <1> DEFINE u == Signal([k EXCEPT !.state = "CONNECT", !.pcb = "syn",
                    !.connecting = k.nonblocking])
             n == [m EXCEPT !.err = "soft"]
  <1> SUFFICES Local(u, n, FALSE) /\ Alike(k, u) /\ SameCall(m, n)
    OBVIOUS
  <1> USE NetFieldsAre, CallFieldsAre DEF Alike, SameFlow
  <1>1. /\ Alike(k, u) /\ u.nonblocking = k.nonblocking /\ SameFlow(k, u)
        /\ u.connecting = k.nonblocking /\ u.state = "CONNECT" /\ u.pcb = "syn"
        /\ u.lastErr = k.lastErr /\ u.current = k.current /\ u.sem = k.sem + 1
        /\ u.offset = k.offset /\ u.boxes = k.boxes /\ u.connecting \in BOOLEAN
        /\ DOMAIN u = NetFields
    BY DEF Local, IsNetconn, u, Signal
  <1>2. /\ n.pc = m.pc /\ n.conn = m.conn /\ n.op = m.op /\ n.err = "soft" /\ n.size = m.size
        /\ n.len = m.len /\ n.queued = m.queued /\ n.dontblock = m.dontblock /\ n.got = m.got
        /\ DOMAIN n = CallFields
    BY DEF Local, IsCall, n, Signal
  <1> HIDE DEF u, n
  <1>3. /\ IsNetconn(k) /\ IsCall(m) /\ Woken(k, m, TRUE) /\ Busy(k, m) /\ Blocks(k, m)
        /\ Shape(k) /\ Made(k, m) /\ Sees(k, m) /\ Pieces(k, m, TRUE) /\ Tells(k, m, TRUE)
    BY DEF Local
  <1>4. IsNetconn(u) /\ IsCall(n)
    <2>1. IsNetconn(u)
      BY <1>1, <1>3 DEF IsNetconn, Answers
    <2>2. IsCall(n)
      BY <1>2, <1>3 DEF IsCall, Answers
    <2> QED
      BY <2>1, <2>2
  <1>5. k.sem = 0 /\ k.current = Nobody /\ Waits(m) /\ k.used
    BY <1>3 DEF Woken, Made, Waits
  <1>6. Woken(u, n, FALSE)
    BY <1>1, <1>2, <1>3, <1>5 DEF IsNetconn, IsCall, Woken, Waits, Answers
  <1>7. Busy(u, n)
    BY <1>1, <1>2, <1>3, <1>5 DEF IsNetconn, IsCall, Busy, KeepsMessage
  <1>8. Blocks(u, n)
    BY <1>1, <1>2, <1>3, <1>5 DEF IsNetconn, IsCall, Blocks
  <1>9. Shape(u)
    BY <1>1, <1>2, <1>3, <1>5 DEF IsNetconn, IsCall, Shape
  <1>10. Made(u, n)
    BY <1>1, <1>2, <1>3, <1>5 DEF IsNetconn, IsCall, Made, Waits, Receives, Answers
  <1>11. Sees(u, n)
    BY <1>1, <1>2, <1>3, <1>5 DEF IsNetconn, IsCall, Sees, Waits
  <1>12. Pieces(u, n, FALSE)
    BY <1>1, <1>2, <1>3, <1>5 DEF Pieces, InLine, Base, Has, HasUntold, HasRefused,
          HasPiece, Receives, Waits, IsNetconn, Woken
  <1>13. Tells(u, n, FALSE)
    BY <1>1, <1>2, <1>3, <1>5 DEF IsNetconn, IsCall, Tells
  <1> QED
    BY <1>1, <1>2, <1>4, <1>5, <1>6, <1>7, <1>8, <1>9,
       <1>10, <1>11, <1>12, <1>13 DEF Local, SameCall, Emptied, Owned, Kin

\* do_listen of a new connection, with its three ends.
LEMMA ListenKeeps ==
  ASSUME NEW k, NEW m, Local(k, m, TRUE), m.op = "listen", k.pcb = "new", k.state = "NONE",
         NEW pcb \in {"listen", "new", "none"}, NEW e \in Answers
  PROVE  /\ Local(Signal([k EXCEPT !.state = IF pcb = "listen" THEN "LISTEN" ELSE "NONE",
              !.pcb = pcb, !.boxes = IF pcb = "listen" THEN {"accept"} ELSE IF pcb = "new"
                THEN {"recv"} ELSE {}]), [m EXCEPT !.err = e], FALSE)
         /\ Alike(k, Signal([k EXCEPT !.state = IF pcb = "listen" THEN "LISTEN" ELSE "NONE",
              !.pcb = pcb, !.boxes = IF pcb = "listen" THEN {"accept"} ELSE IF pcb = "new"
                THEN {"recv"} ELSE {}]))
         /\ SameCall(m, [m EXCEPT !.err = e])
  <1> DEFINE u == Signal([k EXCEPT !.state = IF pcb = "listen" THEN "LISTEN" ELSE "NONE",
                    !.pcb = pcb, !.boxes = IF pcb = "listen" THEN {"accept"}
                      ELSE IF pcb = "new" THEN {"recv"} ELSE {}])
             n == [m EXCEPT !.err = e]
  <1> SUFFICES Local(u, n, FALSE) /\ Alike(k, u) /\ SameCall(m, n)
    OBVIOUS
  <1> USE NetFieldsAre, CallFieldsAre DEF Alike, SameFlow
  <1>1. /\ Alike(k, u) /\ u.nonblocking = k.nonblocking /\ SameFlow(k, u)
        /\ u.connecting = k.connecting /\ u.state = IF pcb = "listen" THEN "LISTEN" ELSE "NONE"
        /\ u.pcb = pcb /\ u.lastErr = k.lastErr /\ u.current = k.current /\ u.sem = k.sem + 1
        /\ u.offset = k.offset
        /\ u.boxes = IF pcb = "listen" THEN {"accept"} ELSE IF pcb = "new" THEN {"recv"} ELSE {}
        /\ DOMAIN u = NetFields
    BY DEF Local, IsNetconn, u, Signal
  <1>2. /\ n.pc = m.pc /\ n.conn = m.conn /\ n.op = m.op /\ n.err = e /\ n.size = m.size
        /\ n.len = m.len /\ n.queued = m.queued /\ n.dontblock = m.dontblock /\ n.got = m.got
        /\ DOMAIN n = CallFields
    BY DEF Local, IsCall, n, Signal
  <1> HIDE DEF u, n
  <1>3. /\ IsNetconn(k) /\ IsCall(m) /\ Woken(k, m, TRUE) /\ Busy(k, m) /\ Blocks(k, m)
        /\ Shape(k) /\ Made(k, m) /\ Sees(k, m) /\ Pieces(k, m, TRUE) /\ Tells(k, m, TRUE)
    BY DEF Local
  <1>4. IsNetconn(u) /\ IsCall(n)
    <2>1. IsNetconn(u)
      BY <1>1, <1>3 DEF IsNetconn, Answers
    <2>2. IsCall(n)
      BY <1>2, <1>3 DEF IsCall, Answers
    <2> QED
      BY <2>1, <2>2
  <1>5. k.sem = 0 /\ k.current = Nobody /\ Waits(m) /\ k.used
    BY <1>3 DEF Woken, Made, Waits
  <1>6. Woken(u, n, FALSE)
    BY <1>1, <1>2, <1>3, <1>5 DEF IsNetconn, IsCall, Woken, Waits, Answers
  <1>7. Busy(u, n)
    BY <1>1, <1>2, <1>3, <1>5 DEF IsNetconn, IsCall, Busy, KeepsMessage
  <1>8. Blocks(u, n)
    BY <1>1, <1>2, <1>3, <1>5 DEF IsNetconn, IsCall, Blocks
  <1>9. Shape(u)
    BY <1>1, <1>2, <1>3, <1>5 DEF IsNetconn, IsCall, Shape
  <1>10. Made(u, n)
    BY <1>1, <1>2, <1>3, <1>5 DEF IsNetconn, IsCall, Made, Waits, Receives, Answers
  <1>11. Sees(u, n)
    BY <1>1, <1>2, <1>3, <1>5 DEF IsNetconn, IsCall, Sees, Waits
  <1>12. Pieces(u, n, FALSE)
    BY <1>1, <1>2, <1>3, <1>5 DEF Pieces, InLine, Base, Has, HasUntold, HasRefused,
          HasPiece, Receives, Waits, IsNetconn, Woken
  <1>13. Tells(u, n, FALSE)
    BY <1>1, <1>2, <1>3, <1>5 DEF IsNetconn, IsCall, Tells
  <1> QED
    BY <1>1, <1>2, <1>4, <1>5, <1>6, <1>7, <1>8, <1>9,
       <1>10, <1>11, <1>12, <1>13 DEF Local, SameCall, Emptied, Owned, Kin

\* do_recv
LEMMA RecvKeeps ==
  ASSUME NEW k, NEW m, Local(k, m, TRUE), m.op = "recv", k.type = "TCP",
         NEW x \in Int, x = IF k.pcb = "none" \/ k.unread = 0 THEN k.unread ELSE k.unread - 1
  PROVE  /\ Local(Signal([k EXCEPT !.unread = x]), [m EXCEPT !.err = "ok"], FALSE)
         /\ Alike(k, Signal([k EXCEPT !.unread = x]))
         /\ SameCall(m, [m EXCEPT !.err = "ok"])
  <1> DEFINE u == Signal([k EXCEPT !.unread = x])
             n == [m EXCEPT !.err = "ok"]
  <1> SUFFICES Local(u, n, FALSE) /\ Alike(k, u) /\ SameCall(m, n)
    OBVIOUS
  <1> USE NetFieldsAre, CallFieldsAre DEF Alike, SameFlow
  <1>1. /\ Alike(k, u) /\ u.nonblocking = k.nonblocking /\ u.recvmbox = k.recvmbox
             /\ u.rx = k.rx
        /\ u.given = k.given /\ u.refused = k.refused /\ u.fin = k.fin /\ u.unread = x
        /\ u.space = k.space /\ u.read = k.read /\ u.connecting = k.connecting
             /\ u.state = k.state
        /\ u.pcb = k.pcb /\ u.lastErr = k.lastErr /\ u.current = k.current /\ u.sem = k.sem + 1
        /\ u.offset = k.offset /\ u.boxes = k.boxes /\ DOMAIN u = NetFields
    BY DEF Local, IsNetconn, u, Signal
  <1>2. /\ n.pc = m.pc /\ n.conn = m.conn /\ n.op = m.op /\ n.err = "ok" /\ n.size = m.size
        /\ n.len = m.len /\ n.queued = m.queued /\ n.dontblock = m.dontblock /\ n.got = m.got
        /\ DOMAIN n = CallFields
    BY DEF Local, IsCall, n, Signal
  <1> HIDE DEF u, n
  <1>3. /\ IsNetconn(k) /\ IsCall(m) /\ Woken(k, m, TRUE) /\ Busy(k, m) /\ Blocks(k, m)
        /\ Shape(k) /\ Made(k, m) /\ Sees(k, m) /\ Pieces(k, m, TRUE) /\ Tells(k, m, TRUE)
    BY DEF Local
  <1>4. IsNetconn(u) /\ IsCall(n)
    <2>1. IsNetconn(u)
      BY <1>1, <1>3 DEF IsNetconn, Answers
    <2>2. IsCall(n)
      BY <1>2, <1>3 DEF IsCall, Answers
    <2> QED
      BY <2>1, <2>2
  <1>5. k.sem = 0 /\ k.current = Nobody /\ Waits(m) /\ k.used /\ Receives(m)
    BY <1>3 DEF Woken, Receives, Waits, Made
  <1>6. Woken(u, n, FALSE)
    BY <1>1, <1>2, <1>3, <1>5 DEF IsNetconn, IsCall, Woken, Waits, Answers
  <1>7. Busy(u, n)
    BY <1>1, <1>2, <1>3, <1>5 DEF IsNetconn, IsCall, Busy, KeepsMessage
  <1>8. Blocks(u, n)
    BY <1>1, <1>2, <1>3, <1>5 DEF IsNetconn, IsCall, Blocks
  <1>9. Shape(u)
    BY <1>1, <1>2, <1>3, <1>5, SMTT(30) DEF IsNetconn, IsCall, Shape
  <1>10. Made(u, n)
    BY <1>1, <1>2, <1>3, <1>5 DEF IsNetconn, IsCall, Made, Waits, Receives, Answers
  <1>11. Sees(u, n)
    BY <1>1, <1>2, <1>3, <1>5 DEF IsNetconn, IsCall, Sees, Waits
  <1>12. Pieces(u, n, FALSE)
    <2>1. PICK i \in Nat : InLine(k, m, TRUE, i)
      BY <1>3 DEF Pieces
    <2>2. /\ k.pcb = "open" => k.unread = i + HasUntold(m, TRUE) + HasRefused(k)
          /\ k.pcb = "open" /\ m.got = 0 => i = 0 /\ k.refused = 0
      BY <2>1, <1>1, <1>2, <1>3, <1>5 DEF InLine, HasPiece
    <2>3. k.pcb = "open" => u.unread = i + HasRefused(k)
      BY <2>2, <1>1, <1>2, <1>3, <1>5 DEF HasUntold, HasRefused, HasPiece, IsNetconn
    <2>5. Base(u, n) = Base(k, m) /\ Receives(n) /\ n.got = m.got /\ HasUntold(n, FALSE) = 0
          /\ HasRefused(u) = HasRefused(k) /\ HasUntold(m, TRUE) = (IF m.got # 0 THEN 1 ELSE 0)
      BY <1>1, <1>2, <1>3, <1>5 DEF Base, Has, HasPiece, Receives, Waits, HasUntold, HasRefused
    <2>6. InLine(u, n, FALSE, i)
      <3>1. k.pcb = "open" => u.unread = i + 0 + HasRefused(u)
        BY <2>1, <2>3, <2>5 DEF HasRefused
      <3>2. HasPiece(n) = HasPiece(m)
        BY <2>5, <1>1, <1>2, <1>3, <1>5 DEF HasPiece
      <3> QED
        BY <2>1, <2>5, <3>1, <3>2, <1>1, <1>2, <1>3, <1>5 DEF InLine, HasUntold, Waits
    <2> QED
      BY <2>6 DEF Pieces
  <1>13. Tells(u, n, FALSE)
    BY <1>1, <1>2, <1>3, <1>5 DEF IsNetconn, IsCall, Tells
  <1> QED
    BY <1>1, <1>2, <1>4, <1>5, <1>6, <1>7, <1>8, <1>9,
       <1>10, <1>11, <1>12, <1>13 DEF Local, SameCall, Emptied, Owned, Kin

\* do_write: the message is kept, so far.
LEMMA WriteStarts ==
  ASSUME NEW k, NEW m, Local(k, m, TRUE), m.op = "write", k.state = "NONE", k.type = "TCP",
           k.pcb # "none",
         k.owner # Nobody
  PROVE  /\ Working([k EXCEPT !.state = "WRITE", !.current = k.owner, !.offset = 0], m)
         /\ Alike(k, [k EXCEPT !.state = "WRITE", !.current = k.owner, !.offset = 0])
  <1> DEFINE u == [k EXCEPT !.state = "WRITE", !.current = k.owner, !.offset = 0]
  <1> SUFFICES Working(u, m) /\ Alike(k, u)
    OBVIOUS
  <1> USE NetFieldsAre, CallFieldsAre DEF Alike, SameFlow
  <1>1. /\ Alike(k, u) /\ u.nonblocking = k.nonblocking /\ SameFlow(k, u)
        /\ u.connecting = k.connecting /\ u.state = "WRITE" /\ u.pcb = k.pcb
        /\ u.lastErr = k.lastErr /\ u.current = k.owner /\ u.sem = k.sem /\ u.offset = 0
        /\ u.boxes = k.boxes /\ DOMAIN u = NetFields
    BY DEF Local, IsNetconn, u
  <1> HIDE DEF u
  <1>3. /\ IsNetconn(k) /\ IsCall(m) /\ Woken(k, m, TRUE) /\ Busy(k, m) /\ Blocks(k, m)
        /\ Shape(k) /\ Made(k, m) /\ Sees(k, m) /\ Pieces(k, m, TRUE) /\ Tells(k, m, TRUE)
    BY DEF Local
  <1>4. IsNetconn(u) /\ IsCall(m)
    <2>1. IsNetconn(u)
      BY <1>1, <1>3 DEF IsNetconn, Answers
    <2>2. IsCall(m)
      BY <1>3 DEF IsCall, Answers
    <2> QED
      BY <2>1, <2>2
  <1>5. k.sem = 0 /\ k.current = Nobody /\ Waits(m) /\ k.used /\ k.pcb \in {"new", "open"}
          /\ k.rx
        /\ m.size > 0 /\ m.queued = 0
    BY <1>3 DEF Woken, Made, Waits, Shape, IsNetconn, Tells
  <1>6. Woken(u, m, FALSE)
    BY <1>1, <1>3, <1>5 DEF IsNetconn, IsCall, Woken, Waits, Answers
  <1>7. Busy(u, m)
    BY <1>1, <1>3, <1>5 DEF IsNetconn, IsCall, Busy, KeepsMessage
  <1>8. Shape(u)
    BY <1>1, <1>3, <1>5 DEF IsNetconn, IsCall, Shape
  <1>9. Made(u, m)
    BY <1>1, <1>3, <1>5 DEF IsNetconn, IsCall, Made, Waits, Receives, Answers
  <1>10. Sees(u, m)
    BY <1>1, <1>3, <1>5 DEF IsNetconn, IsCall, Sees, Waits
  <1>11. Pieces(u, m, FALSE)
    BY <1>1, <1>3, <1>5 DEF Pieces, InLine, Base, Has, HasUntold, HasRefused,
          HasPiece, Receives, Waits, IsNetconn, Woken
  <1>12. Tells(u, m, FALSE)
    BY <1>1, <1>3, <1>5 DEF IsNetconn, IsCall, Tells
  <1> QED
    BY <1>1, <1>4, <1>5, <1>6, <1>7, <1>8, <1>9,
       <1>10, <1>11, <1>12 DEF Working, SameCall, Emptied, Owned, Kin

\* The peer acknowledges.
LEMMA SpaceKeeps ==
  ASSUME NEW k, NEW m, NEW p, Local(k, m, p), k.used, NEW s \in Nat
  PROVE  Local([k EXCEPT !.space = s], m, p) /\ Alike(k, [k EXCEPT !.space = s])
  <1> DEFINE u == [k EXCEPT !.space = s]
  <1> SUFFICES Local(u, m, p) /\ Alike(k, u)
    OBVIOUS
  <1> USE NetFieldsAre, CallFieldsAre DEF Alike, SameFlow
  <1>1. /\ Alike(k, u) /\ u.nonblocking = k.nonblocking /\ u.recvmbox = k.recvmbox
             /\ u.rx = k.rx
        /\ u.given = k.given /\ u.refused = k.refused /\ u.fin = k.fin /\ u.unread = k.unread
        /\ u.space = s /\ u.read = k.read /\ u.connecting = k.connecting /\ u.state = k.state
        /\ u.pcb = k.pcb /\ u.lastErr = k.lastErr /\ u.current = k.current /\ u.sem = k.sem
        /\ u.offset = k.offset /\ u.boxes = k.boxes /\ DOMAIN u = NetFields
    BY DEF Local, IsNetconn, u
  <1> HIDE DEF u
  <1>3. /\ IsNetconn(k) /\ IsCall(m) /\ Woken(k, m, p) /\ Busy(k, m) /\ Blocks(k, m)
        /\ Shape(k) /\ Made(k, m) /\ Sees(k, m) /\ Pieces(k, m, p) /\ Tells(k, m, p)
    BY DEF Local
  <1>4. IsNetconn(u) /\ IsCall(m)
    <2>1. IsNetconn(u)
      BY <1>1, <1>3 DEF IsNetconn, Answers
    <2>2. IsCall(m)
      BY <1>3 DEF IsCall, Answers
    <2> QED
      BY <2>1, <2>2
  <1>6. Woken(u, m, p)
    BY <1>1, <1>3 DEF IsNetconn, IsCall, Woken, Waits, Answers
  <1>7. Busy(u, m)
    BY <1>1, <1>3 DEF IsNetconn, IsCall, Busy, KeepsMessage
  <1>8. Blocks(u, m)
    BY <1>1, <1>3 DEF IsNetconn, IsCall, Blocks
  <1>9. Shape(u)
    BY <1>1, <1>3, SMTT(30) DEF IsNetconn, IsCall, Shape
  <1>10. Made(u, m)
    BY <1>1, <1>3, SMTT(30) DEF IsNetconn, IsCall, Made, Waits, Receives, Answers
  <1>11. Sees(u, m)
    BY <1>1, <1>3 DEF IsNetconn, IsCall, Sees, Waits
  <1>12. Pieces(u, m, p)
    BY <1>1, <1>3 DEF Pieces, InLine, Base, Has, HasUntold, HasRefused,
          HasPiece, Receives, Waits, IsNetconn, Woken
  <1>13. Tells(u, m, p)
    BY <1>1, <1>3 DEF IsNetconn, IsCall, Tells
  <1> QED
    BY <1>1, <1>4, <1>6, <1>7, <1>8, <1>9,
       <1>10, <1>11, <1>12, <1>13 DEF Local, SameCall, Emptied, Owned, Kin

\* do_writemore when the message is done with.
LEMMA WriteDone ==
  ASSUME NEW k, NEW m, Working(k, m), NEW n1 \in Nat, n1 <= k.space, k.offset + n1 <= m.size,
         k.offset + n1 = m.size \/ m.dontblock
  PROVE  /\ Local(Ended([[k EXCEPT !.space = k.space - n1,
              !.offset = k.offset + n1] EXCEPT !.offset = 0]),
                [m EXCEPT !.queued = m.queued + n1, !.len = k.offset + n1, !.err = "ok"], FALSE)
         /\ Alike(k, Ended([[k EXCEPT !.space = k.space - n1,
              !.offset = k.offset + n1] EXCEPT !.offset = 0]))
         /\ SameCall(m, [m EXCEPT !.queued = m.queued + n1, !.len = k.offset + n1,
              !.err = "ok"])
  <1> DEFINE u == Ended([[k EXCEPT !.space = k.space - n1,
                    !.offset = k.offset + n1] EXCEPT !.offset = 0])
             n == [m EXCEPT !.queued = m.queued + n1, !.len = k.offset + n1, !.err = "ok"]
  <1> SUFFICES Local(u, n, FALSE) /\ Alike(k, u) /\ SameCall(m, n)
    OBVIOUS
  <1> USE NetFieldsAre, CallFieldsAre DEF Alike, SameFlow
  <1>1. /\ Alike(k, u) /\ u.nonblocking = k.nonblocking /\ u.recvmbox = k.recvmbox
             /\ u.rx = k.rx
        /\ u.given = k.given /\ u.refused = k.refused /\ u.fin = k.fin /\ u.unread = k.unread
        /\ u.space = k.space - n1 /\ u.read = k.read /\ u.connecting = k.connecting
        /\ u.state = "NONE" /\ u.pcb = k.pcb /\ u.lastErr = k.lastErr /\ u.current = Nobody
        /\ u.sem = k.sem + 1 /\ u.offset = 0 /\ u.boxes = k.boxes /\ DOMAIN u = NetFields
    BY DEF Working, IsNetconn, u, Ended, Signal
  <1>2. /\ n.pc = m.pc /\ n.conn = m.conn /\ n.op = m.op /\ n.err = "ok" /\ n.size = m.size
        /\ n.len = k.offset + n1 /\ n.queued = m.queued + n1 /\ n.dontblock = m.dontblock
        /\ n.got = m.got /\ DOMAIN n = CallFields
    BY DEF Working, IsCall, n, Ended, Signal
  <1> HIDE DEF u, n
  <1>3. /\ IsNetconn(k) /\ IsCall(m) /\ Woken(k, m, FALSE) /\ Busy(k, m)
        /\ Shape(k) /\ Made(k, m) /\ Sees(k, m) /\ Pieces(k, m, FALSE) /\ Tells(k, m, FALSE)
    BY DEF Working
  <1>4. IsNetconn(u) /\ IsCall(n)
    <2>1. IsNetconn(u)
      BY <1>1, <1>3 DEF IsNetconn, Answers
    <2>2. IsCall(n)
      BY <1>2, <1>3, SMTT(30) DEF IsCall, Answers, IsNetconn
    <2> QED
      BY <2>1, <2>2
  <1>5. k.sem = 0 /\ k.current = k.owner /\ k.owner # Nobody /\ Waits(m) /\ k.used /\ k.rx
          /\ m.op = "write"
        /\ m.queued = k.offset /\ k.offset < m.size /\ k.pcb \in {"new", "open"}
    BY <1>3 DEF Working, Woken, Made, Waits, Shape, IsNetconn, Tells, Busy, KeepsMessage
  <1>6. Woken(u, n, FALSE)
    BY <1>1, <1>2, <1>3, <1>5 DEF IsNetconn, IsCall, Woken, Waits, Answers
  <1>7. Busy(u, n)
    BY <1>1, <1>2, <1>3, <1>5 DEF IsNetconn, IsCall, Busy, KeepsMessage
  <1>8. Blocks(u, n)
    BY <1>1, <1>2, <1>3, <1>5 DEF IsNetconn, IsCall, Blocks
  <1>9. Shape(u)
    BY <1>1, <1>2, <1>3, <1>5, SMTT(30) DEF IsNetconn, IsCall, Shape
  <1>10. Made(u, n)
    BY <1>1, <1>2, <1>3, <1>5 DEF IsNetconn, IsCall, Made, Waits, Receives, Answers
  <1>11. Sees(u, n)
    BY <1>1, <1>2, <1>3, <1>5 DEF IsNetconn, IsCall, Sees, Waits
  <1>12. Pieces(u, n, FALSE)
    BY <1>1, <1>2, <1>3, <1>5 DEF Pieces, InLine, Base, Has, HasUntold, HasRefused,
          HasPiece, Receives, Waits, IsNetconn, Woken
  <1>13. Tells(u, n, FALSE)
    BY <1>1, <1>2, <1>3, <1>5 DEF IsNetconn, IsCall, Tells
  <1> QED
    BY <1>1, <1>2, <1>4, <1>5, <1>6, <1>7, <1>8, <1>9,
       <1>10, <1>11, <1>12, <1>13 DEF Local, SameCall, Emptied, Owned, Kin

\* do_writemore when the rest must wait.
LEMMA WriteKept ==
  ASSUME NEW k, NEW m, Working(k, m), NEW n1 \in Nat, n1 <= k.space, k.offset + n1 < m.size,
         ~m.dontblock, k.pcb = "open"
  PROVE  /\ Local([k EXCEPT !.space = k.space - n1, !.offset = k.offset + n1],
              [m EXCEPT !.queued = m.queued + n1], FALSE)
         /\ Alike(k, [k EXCEPT !.space = k.space - n1, !.offset = k.offset + n1])
         /\ SameCall(m, [m EXCEPT !.queued = m.queued + n1])
  <1> DEFINE u == [k EXCEPT !.space = k.space - n1, !.offset = k.offset + n1]
             n == [m EXCEPT !.queued = m.queued + n1]
  <1> SUFFICES Local(u, n, FALSE) /\ Alike(k, u) /\ SameCall(m, n)
    OBVIOUS
  <1> USE NetFieldsAre, CallFieldsAre DEF Alike, SameFlow
  <1>1. /\ Alike(k, u) /\ u.nonblocking = k.nonblocking /\ u.recvmbox = k.recvmbox
             /\ u.rx = k.rx
        /\ u.given = k.given /\ u.refused = k.refused /\ u.fin = k.fin /\ u.unread = k.unread
        /\ u.space = k.space - n1 /\ u.read = k.read /\ u.connecting = k.connecting
        /\ u.state = k.state /\ u.pcb = k.pcb /\ u.lastErr = k.lastErr /\ u.current = k.current
        /\ u.sem = k.sem /\ u.offset = k.offset + n1 /\ u.boxes = k.boxes
             /\ DOMAIN u = NetFields
    BY DEF Working, IsNetconn, u
  <1>2. /\ n.pc = m.pc /\ n.conn = m.conn /\ n.op = m.op /\ n.err = m.err /\ n.size = m.size
        /\ n.len = m.len /\ n.queued = m.queued + n1 /\ n.dontblock = m.dontblock
             /\ n.got = m.got
        /\ DOMAIN n = CallFields
    BY DEF Working, IsCall, n
  <1> HIDE DEF u, n
  <1>3. /\ IsNetconn(k) /\ IsCall(m) /\ Woken(k, m, FALSE) /\ Busy(k, m)
        /\ Shape(k) /\ Made(k, m) /\ Sees(k, m) /\ Pieces(k, m, FALSE) /\ Tells(k, m, FALSE)
    BY DEF Working
  <1>4. IsNetconn(u) /\ IsCall(n)
    <2>1. IsNetconn(u)
      BY <1>1, <1>3 DEF IsNetconn, Answers
    <2>2. IsCall(n)
      BY <1>2, <1>3, SMTT(30) DEF IsCall, Answers, IsNetconn
    <2> QED
      BY <2>1, <2>2
  <1>5. k.sem = 0 /\ k.current = k.owner /\ k.owner # Nobody /\ Waits(m) /\ k.used /\ k.rx
          /\ m.op = "write"
        /\ m.queued = k.offset /\ k.offset < m.size /\ k.pcb \in {"new", "open"}
    BY <1>3 DEF Working, Woken, Made, Waits, Shape, IsNetconn, Tells, Busy, KeepsMessage
  <1>6. Woken(u, n, FALSE)
    BY <1>1, <1>2, <1>3, <1>5 DEF IsNetconn, IsCall, Woken, Waits, Answers
  <1>7. Busy(u, n)
    BY <1>1, <1>2, <1>3, <1>5 DEF IsNetconn, IsCall, Busy, KeepsMessage
  <1>8. Blocks(u, n)
    BY <1>1, <1>2, <1>3, <1>5 DEF IsNetconn, IsCall, Blocks
  <1>9. Shape(u)
    BY <1>1, <1>2, <1>3, <1>5 DEF IsNetconn, IsCall, Shape
  <1>10. Made(u, n)
    BY <1>1, <1>2, <1>3, <1>5 DEF IsNetconn, IsCall, Made, Waits, Receives, Answers
  <1>11. Sees(u, n)
    BY <1>1, <1>2, <1>3, <1>5 DEF IsNetconn, IsCall, Sees, Waits
  <1>12. Pieces(u, n, FALSE)
    BY <1>1, <1>2, <1>3, <1>5 DEF Pieces, InLine, Base, Has, HasUntold, HasRefused,
          HasPiece, Receives, Waits, IsNetconn, Woken
  <1>13. Tells(u, n, FALSE)
    BY <1>1, <1>2, <1>3, <1>5 DEF IsNetconn, IsCall, Tells
  <1> QED
    BY <1>1, <1>2, <1>4, <1>5, <1>6, <1>7, <1>8, <1>9,
       <1>10, <1>11, <1>12, <1>13 DEF Local, SameCall, Emptied, Owned, Kin

\* do_writemore when nothing can be written.
LEMMA WriteFails ==
  ASSUME NEW k, NEW m, Working(k, m), NEW e \in {"soft", "fatal"}, k.offset = 0
  PROVE  /\ Local(Ended(k), [m EXCEPT !.err = e, !.len = 0], FALSE)
         /\ Alike(k, Ended(k))
         /\ SameCall(m, [m EXCEPT !.err = e, !.len = 0])
  <1> DEFINE u == Ended(k)
             n == [m EXCEPT !.err = e, !.len = 0]
  <1> SUFFICES Local(u, n, FALSE) /\ Alike(k, u) /\ SameCall(m, n)
    OBVIOUS
  <1> USE NetFieldsAre, CallFieldsAre DEF Alike, SameFlow
  <1>1. /\ Alike(k, u) /\ u.nonblocking = k.nonblocking /\ SameFlow(k, u)
        /\ u.connecting = k.connecting /\ u.state = "NONE" /\ u.pcb = k.pcb
        /\ u.lastErr = k.lastErr /\ u.current = Nobody /\ u.sem = k.sem + 1
             /\ u.offset = k.offset
        /\ u.boxes = k.boxes /\ DOMAIN u = NetFields
    BY DEF Working, IsNetconn, u, Ended, Signal
  <1>2. /\ n.pc = m.pc /\ n.conn = m.conn /\ n.op = m.op /\ n.err = e /\ n.size = m.size
        /\ n.len = 0 /\ n.queued = m.queued /\ n.dontblock = m.dontblock /\ n.got = m.got
        /\ DOMAIN n = CallFields
    BY DEF Working, IsCall, n, Ended, Signal
  <1> HIDE DEF u, n
  <1>3. /\ IsNetconn(k) /\ IsCall(m) /\ Woken(k, m, FALSE) /\ Busy(k, m)
        /\ Shape(k) /\ Made(k, m) /\ Sees(k, m) /\ Pieces(k, m, FALSE) /\ Tells(k, m, FALSE)
    BY DEF Working
  <1>4. IsNetconn(u) /\ IsCall(n)
    <2>1. IsNetconn(u)
      BY <1>1, <1>3 DEF IsNetconn, Answers
    <2>2. IsCall(n)
      BY <1>2, <1>3 DEF IsCall, Answers, IsNetconn
    <2> QED
      BY <2>1, <2>2
  <1>5. k.sem = 0 /\ k.current = k.owner /\ k.owner # Nobody /\ Waits(m) /\ k.used /\ k.rx
          /\ m.op = "write"
        /\ m.queued = k.offset /\ k.offset < m.size /\ k.pcb \in {"new", "open"}
    BY <1>3 DEF Working, Woken, Made, Waits, Shape, IsNetconn, Tells, Busy, KeepsMessage
  <1>6. Woken(u, n, FALSE)
    BY <1>1, <1>2, <1>3, <1>5 DEF IsNetconn, IsCall, Woken, Waits, Answers
  <1>7. Busy(u, n)
    BY <1>1, <1>2, <1>3, <1>5 DEF IsNetconn, IsCall, Busy, KeepsMessage
  <1>8. Blocks(u, n)
    BY <1>1, <1>2, <1>3, <1>5 DEF IsNetconn, IsCall, Blocks
  <1>9. Shape(u)
    BY <1>1, <1>2, <1>3, <1>5 DEF IsNetconn, IsCall, Shape
  <1>10. Made(u, n)
    BY <1>1, <1>2, <1>3, <1>5 DEF IsNetconn, IsCall, Made, Waits, Receives, Answers
  <1>11. Sees(u, n)
    BY <1>1, <1>2, <1>3, <1>5 DEF IsNetconn, IsCall, Sees, Waits
  <1>12. Pieces(u, n, FALSE)
    BY <1>1, <1>2, <1>3, <1>5 DEF Pieces, InLine, Base, Has, HasUntold, HasRefused,
          HasPiece, Receives, Waits, IsNetconn, Woken
  <1>13. Tells(u, n, FALSE)
    BY <1>1, <1>2, <1>3, <1>5 DEF IsNetconn, IsCall, Tells
  <1> QED
    BY <1>1, <1>2, <1>4, <1>5, <1>6, <1>7, <1>8, <1>9,
       <1>10, <1>11, <1>12, <1>13 DEF Local, SameCall, Emptied, Owned, Kin

\* do_close_internal for a message that was kept.
LEMMA CloseEnds ==
  ASSUME NEW k, NEW m, Local(k, m, FALSE), k.state = "CLOSE"
  PROVE  /\ Local(Ended(Gone(k)), [m EXCEPT !.err = "ok"], FALSE)
         /\ Alike(k, Ended(Gone(k)))
         /\ SameCall(m, [m EXCEPT !.err = "ok"])
  <1> DEFINE u == Ended(Gone(k))
             n == [m EXCEPT !.err = "ok"]
  <1> SUFFICES Local(u, n, FALSE) /\ Alike(k, u) /\ SameCall(m, n)
    OBVIOUS
  <1> USE NetFieldsAre, CallFieldsAre DEF Alike, SameFlow
  <1>1. /\ Alike(k, u) /\ u.nonblocking = k.nonblocking /\ u.recvmbox = k.recvmbox
             /\ u.rx = TRUE
        /\ u.given = 0 /\ u.refused = 0 /\ u.fin = "no" /\ u.unread = 0 /\ u.space = SndBuf
        /\ u.read = k.read /\ u.connecting = k.connecting /\ u.state = "NONE" /\ u.pcb = "none"
        /\ u.lastErr = k.lastErr /\ u.current = Nobody /\ u.sem = k.sem + 1
             /\ u.offset = k.offset
        /\ u.boxes = k.boxes /\ u.rx \in BOOLEAN /\ DOMAIN u = NetFields
    BY DEF Local, IsNetconn, u, Ended, Signal, Gone
  <1>2. /\ n.pc = m.pc /\ n.conn = m.conn /\ n.op = m.op /\ n.err = "ok" /\ n.size = m.size
        /\ n.len = m.len /\ n.queued = m.queued /\ n.dontblock = m.dontblock /\ n.got = m.got
        /\ DOMAIN n = CallFields
    BY DEF Local, IsCall, n, Ended, Signal, Gone
  <1> HIDE DEF u, n
  <1>3. /\ IsNetconn(k) /\ IsCall(m) /\ Woken(k, m, FALSE) /\ Busy(k, m) /\ Blocks(k, m)
        /\ Shape(k) /\ Made(k, m) /\ Sees(k, m) /\ Pieces(k, m, FALSE) /\ Tells(k, m, FALSE)
    BY DEF Local
  <1>4. IsNetconn(u) /\ IsCall(n)
    <2>1. IsNetconn(u)
      BY <1>1, <1>3, NobodyElse DEF IsNetconn, Answers
    <2>2. IsCall(n)
      BY <1>2, <1>3 DEF IsCall, Answers
    <2> QED
      BY <2>1, <2>2
  <1>5. k.sem = 0 /\ k.current = k.owner /\ k.owner # Nobody /\ Waits(m) /\ k.used
          /\ m.op \in {"close", "delete"}
        /\ k.boxes = {} /\ k.recvmbox = <<>> /\ k.acceptmbox = <<>> /\ k.pcb = "open"
             /\ SndBuf \in Nat
    BY <1>3, NetconnAssumption DEF Woken, Made, Waits, Shape, IsNetconn, Busy, KeepsMessage
  <1>6. Woken(u, n, FALSE)
    BY <1>1, <1>2, <1>3, <1>5 DEF IsNetconn, IsCall, Woken, Waits, Answers
  <1>7. Busy(u, n)
    BY <1>1, <1>2, <1>3, <1>5 DEF IsNetconn, IsCall, Busy, KeepsMessage
  <1>8. Blocks(u, n)
    BY <1>1, <1>2, <1>3, <1>5 DEF IsNetconn, IsCall, Blocks
  <1>9. Shape(u)
    BY <1>1, <1>2, <1>3, <1>5 DEF IsNetconn, IsCall, Shape
  <1>10. Made(u, n)
    BY <1>1, <1>2, <1>3, <1>5 DEF IsNetconn, IsCall, Made, Waits, Receives, Answers
  <1>11. Sees(u, n)
    BY <1>1, <1>2, <1>3, <1>5 DEF IsNetconn, IsCall, Sees, Waits
  <1>12. Pieces(u, n, FALSE)
    <2>1. InLine(u, n, FALSE, 0)
      BY <1>1, <1>2, <1>3, <1>5 DEF InLine, Run, HasPiece, Receives, Waits, Has, HasUntold,
           HasRefused, Base, IsNetconn
    <2> QED
      BY <2>1 DEF Pieces
  <1>13. Tells(u, n, FALSE)
    BY <1>1, <1>2, <1>3, <1>5 DEF IsNetconn, IsCall, Tells
  <1> QED
    BY <1>1, <1>2, <1>4, <1>5, <1>6, <1>7, <1>8, <1>9,
       <1>10, <1>11, <1>12, <1>13 DEF Local, SameCall, Emptied, Owned, Kin

\* do_close_internal for a message that has come, done at once.
LEMMA CloseAtOnce ==
  ASSUME NEW k, NEW m, Local(k, m, TRUE), m.op \in {"close", "delete"}, k.state \in {"NONE",
           "LISTEN", "CONNECT"}
  PROVE  /\ Local(Ended(Gone([Drained(k) EXCEPT !.state = "CLOSE", !.current = k.owner])),
              [m EXCEPT !.err = "ok"], FALSE)
         /\ Emptied(k, Ended(Gone([Drained(k) EXCEPT !.state = "CLOSE", !.current = k.owner])))
         /\ SameCall(m, [m EXCEPT !.err = "ok"])
  <1> DEFINE u == Ended(Gone([Drained(k) EXCEPT !.state = "CLOSE", !.current = k.owner]))
             n == [m EXCEPT !.err = "ok"]
  <1> SUFFICES Local(u, n, FALSE) /\ Emptied(k, u) /\ SameCall(m, n)
    OBVIOUS
  <1> USE NetFieldsAre, CallFieldsAre DEF Alike, SameFlow
  <1>1. /\ u.used = k.used /\ u.owner = k.owner /\ u.type = k.type
             /\ u.nonblocking = k.nonblocking
        /\ u.acceptmbox = <<>> /\ u.recvmbox = <<>> /\ u.rx = TRUE /\ u.given = 0
             /\ u.refused = 0
        /\ u.fin = "no" /\ u.unread = 0 /\ u.space = SndBuf /\ u.read = k.read
        /\ u.connecting = k.connecting /\ u.state = "NONE" /\ u.pcb = "none"
        /\ u.lastErr = k.lastErr /\ u.current = Nobody /\ u.sem = k.sem + 1
             /\ u.offset = k.offset
        /\ u.boxes = {} /\ u.rx \in BOOLEAN /\ DOMAIN u = NetFields
    BY DrainedIs, ZenonT(60) DEF Local, IsNetconn, u, Ended, Signal, Gone
  <1>2. /\ n.pc = m.pc /\ n.conn = m.conn /\ n.op = m.op /\ n.err = "ok" /\ n.size = m.size
        /\ n.len = m.len /\ n.queued = m.queued /\ n.dontblock = m.dontblock /\ n.got = m.got
        /\ DOMAIN n = CallFields
    BY DEF Local, IsCall, n, Ended, Signal, Gone
  <1> HIDE DEF u, n
  <1>3. /\ IsNetconn(k) /\ IsCall(m) /\ Woken(k, m, TRUE) /\ Busy(k, m) /\ Blocks(k, m)
        /\ Shape(k) /\ Made(k, m) /\ Sees(k, m) /\ Pieces(k, m, TRUE) /\ Tells(k, m, TRUE)
    BY DEF Local
  <1>4. IsNetconn(u) /\ IsCall(n)
    <2>1. IsNetconn(u)
      BY <1>1, <1>3, NobodyElse, SMTT(30) DEF IsNetconn, Answers
    <2>2. IsCall(n)
      BY <1>2, <1>3 DEF IsCall, Answers
    <2> QED
      BY <2>1, <2>2
  <1>5. k.sem = 0 /\ k.current = Nobody /\ Waits(m) /\ k.used /\ k.rx /\ SndBuf \in Nat
    BY <1>3, NetconnAssumption DEF Woken, Made, Waits, Shape, IsNetconn, Busy, KeepsMessage
  <1>6. Woken(u, n, FALSE)
    BY <1>1, <1>2, <1>3, <1>5 DEF IsNetconn, IsCall, Woken, Waits, Answers
  <1>7. Busy(u, n)
    BY <1>1, <1>2, <1>3, <1>5 DEF IsNetconn, IsCall, Busy, KeepsMessage
  <1>8. Blocks(u, n)
    BY <1>1, <1>2, <1>3, <1>5 DEF IsNetconn, IsCall, Blocks
  <1>9. Shape(u)
    BY <1>1, <1>2, <1>3, <1>5 DEF IsNetconn, IsCall, Shape
  <1>10. Made(u, n)
    BY <1>1, <1>2, <1>3, <1>5 DEF IsNetconn, IsCall, Made, Waits, Receives, Answers
  <1>11. Sees(u, n)
    BY <1>1, <1>2, <1>3, <1>5 DEF IsNetconn, IsCall, Sees, Waits
  <1>12. Pieces(u, n, FALSE)
    <2>1. InLine(u, n, FALSE, 0)
      BY <1>1, <1>2, <1>3, <1>5 DEF InLine, Run, HasPiece, Receives, Waits, Has, HasUntold,
           HasRefused, Base, IsNetconn
    <2> QED
      BY <2>1 DEF Pieces
  <1>13. Tells(u, n, FALSE)
    BY <1>1, <1>2, <1>3, <1>5 DEF IsNetconn, IsCall, Tells
  <1> QED
    BY <1>1, <1>2, <1>4, <1>5, <1>6, <1>7, <1>8, <1>9,
       <1>10, <1>11, <1>12, <1>13 DEF Local, SameCall, Emptied, Owned, Kin

\* do_close_internal for a message that has come, to be gone on with.
LEMMA CloseWaits ==
  ASSUME NEW k, NEW m, Local(k, m, TRUE), m.op \in {"close", "delete"}, k.pcb = "open",
           k.owner # Nobody,
         k.refused = 0, Drained(k).unread = 0
  PROVE  /\ Local([[Drained(k) EXCEPT !.state = "CLOSE",
              !.current = k.owner] EXCEPT !.rx = FALSE], m, FALSE)
         /\ Emptied(k, [[Drained(k) EXCEPT !.state = "CLOSE",
              !.current = k.owner] EXCEPT !.rx = FALSE])
  <1> DEFINE u == [[Drained(k) EXCEPT !.state = "CLOSE",
                    !.current = k.owner] EXCEPT !.rx = FALSE]
  <1> SUFFICES Local(u, m, FALSE) /\ Emptied(k, u)
    OBVIOUS
  <1> USE NetFieldsAre, CallFieldsAre DEF Alike, SameFlow
  <1>1. /\ u.used = k.used /\ u.owner = k.owner /\ u.type = k.type
             /\ u.nonblocking = k.nonblocking
        /\ u.acceptmbox = <<>> /\ u.recvmbox = <<>> /\ u.rx = FALSE /\ u.given = k.given
        /\ u.refused = k.refused /\ u.fin = k.fin /\ u.unread = 0 /\ u.space = k.space
        /\ u.read = k.read /\ u.connecting = k.connecting /\ u.state = "CLOSE" /\ u.pcb = k.pcb
        /\ u.lastErr = k.lastErr /\ u.current = k.owner /\ u.sem = k.sem /\ u.offset = k.offset
        /\ u.boxes = {} /\ u.rx \in BOOLEAN /\ DOMAIN u = NetFields
    BY DrainedIs, ZenonT(60) DEF Local, IsNetconn, u
  <1> HIDE DEF u
  <1>3. /\ IsNetconn(k) /\ IsCall(m) /\ Woken(k, m, TRUE) /\ Busy(k, m) /\ Blocks(k, m)
        /\ Shape(k) /\ Made(k, m) /\ Sees(k, m) /\ Pieces(k, m, TRUE) /\ Tells(k, m, TRUE)
    BY DEF Local
  <1>4. IsNetconn(u) /\ IsCall(m)
    <2>1. IsNetconn(u)
      BY <1>1, <1>3, NobodyElse DEF IsNetconn, Answers
    <2>2. IsCall(m)
      BY <1>3 DEF IsCall, Answers
    <2> QED
      BY <2>1, <2>2
  <1>5. k.sem = 0 /\ k.current = Nobody /\ Waits(m) /\ k.used /\ k.rx /\ SndBuf \in Nat
    BY <1>3, NetconnAssumption DEF Woken, Made, Waits, Shape, IsNetconn, Busy, KeepsMessage
  <1>6. Woken(u, m, FALSE)
    BY <1>1, <1>3, <1>5 DEF IsNetconn, IsCall, Woken, Waits, Answers
  <1>7. Busy(u, m)
    BY <1>1, <1>3, <1>5 DEF IsNetconn, IsCall, Busy, KeepsMessage
  <1>8. Blocks(u, m)
    BY <1>1, <1>3, <1>5 DEF IsNetconn, IsCall, Blocks
  <1>9. Shape(u)
    BY <1>1, <1>3, <1>5 DEF IsNetconn, IsCall, Shape
  <1>10. Made(u, m)
    BY <1>1, <1>3, <1>5 DEF IsNetconn, IsCall, Made, Waits, Receives, Answers
  <1>11. Sees(u, m)
    BY <1>1, <1>3, <1>5 DEF IsNetconn, IsCall, Sees, Waits
  <1>12. Pieces(u, m, FALSE)
    <2>1. PICK i \in Nat : InLine(k, m, TRUE, i)
      BY <1>3 DEF Pieces, Shape
    <2>2. k.fin # "kept" /\ ~Receives(m)
      BY <2>1, <1>1, <1>3, <1>5 DEF InLine, Receives
    <2>3. InLine(u, m, FALSE, 0)
      BY <2>2, <1>1, <1>3, <1>5 DEF InLine, Run, HasPiece, Has, HasUntold, HasRefused, Base,
           IsNetconn
    <2> QED
      BY <2>3 DEF Pieces
  <1>13. Tells(u, m, FALSE)
    BY <1>1, <1>3, <1>5 DEF IsNetconn, IsCall, Tells
  <1> QED
    BY <1>1, <1>4, <1>5, <1>6, <1>7, <1>8, <1>9,
       <1>10, <1>11, <1>12, <1>13 DEF Local, SameCall, Emptied, Owned, Kin

\* do_delconn without a connection.
LEMMA Deletes ==
  ASSUME NEW k, NEW m, Local(k, m, TRUE), m.op = "delete", k.state \in {"NONE", "LISTEN",
           "CONNECT"},
         k.pcb = "none" \/ k.type # "TCP"
  PROVE  Local(Signal(Gone(Drained(k))), m, FALSE) /\ Emptied(k, Signal(Gone(Drained(k))))
  <1> DEFINE u == Signal(Gone(Drained(k)))
  <1> SUFFICES Local(u, m, FALSE) /\ Emptied(k, u)
    OBVIOUS
  <1> USE NetFieldsAre, CallFieldsAre DEF Alike, SameFlow
  <1>1. /\ u.used = k.used /\ u.owner = k.owner /\ u.type = k.type
             /\ u.nonblocking = k.nonblocking
        /\ u.acceptmbox = <<>> /\ u.recvmbox = <<>> /\ u.rx = TRUE /\ u.given = 0
             /\ u.refused = 0
        /\ u.fin = "no" /\ u.unread = 0 /\ u.space = SndBuf /\ u.read = k.read
        /\ u.connecting = k.connecting /\ u.state = k.state /\ u.pcb = "none"
        /\ u.lastErr = k.lastErr /\ u.current = k.current /\ u.sem = k.sem + 1
        /\ u.offset = k.offset /\ u.boxes = {} /\ u.rx \in BOOLEAN /\ DOMAIN u = NetFields
    BY DrainedIs, ZenonT(60) DEF Local, IsNetconn, u, Signal, Gone
  <1> HIDE DEF u
  <1>3. /\ IsNetconn(k) /\ IsCall(m) /\ Woken(k, m, TRUE) /\ Busy(k, m) /\ Blocks(k, m)
        /\ Shape(k) /\ Made(k, m) /\ Sees(k, m) /\ Pieces(k, m, TRUE) /\ Tells(k, m, TRUE)
    BY DEF Local
  <1>4. IsNetconn(u) /\ IsCall(m)
    <2>1. IsNetconn(u)
      BY <1>1, <1>3, NobodyElse DEF IsNetconn, Answers
    <2>2. IsCall(m)
      BY <1>3 DEF IsCall, Answers
    <2> QED
      BY <2>1, <2>2
  <1>5. k.sem = 0 /\ k.current = Nobody /\ Waits(m) /\ k.used /\ k.rx /\ SndBuf \in Nat
    BY <1>3, NetconnAssumption DEF Woken, Made, Waits, Shape, IsNetconn, Busy, KeepsMessage
  <1>6. Woken(u, m, FALSE)
    BY <1>1, <1>3, <1>5 DEF IsNetconn, IsCall, Woken, Waits, Answers
  <1>7. Busy(u, m)
    BY <1>1, <1>3, <1>5 DEF IsNetconn, IsCall, Busy, KeepsMessage
  <1>8. Blocks(u, m)
    BY <1>1, <1>3, <1>5 DEF IsNetconn, IsCall, Blocks
  <1>9. Shape(u)
    BY <1>1, <1>3, <1>5 DEF IsNetconn, IsCall, Shape
  <1>10. Made(u, m)
    BY <1>1, <1>3, <1>5 DEF IsNetconn, IsCall, Made, Waits, Receives, Answers
  <1>11. Sees(u, m)
    BY <1>1, <1>3, <1>5 DEF IsNetconn, IsCall, Sees, Waits
  <1>12. Pieces(u, m, FALSE)
    <2>1. InLine(u, m, FALSE, 0)
      BY <1>1, <1>3, <1>5 DEF InLine, Run, HasPiece, Receives, Waits, Has, HasUntold,
           HasRefused, Base, IsNetconn
    <2> QED
      BY <2>1 DEF Pieces
  <1>13. Tells(u, m, FALSE)
    BY <1>1, <1>3, <1>5 DEF IsNetconn, IsCall, Tells
  <1> QED
    BY <1>1, <1>4, <1>5, <1>6, <1>7, <1>8, <1>9,
       <1>10, <1>11, <1>12, <1>13 DEF Local, SameCall, Emptied, Owned, Kin

\* do_close_internal once more without success.
LEMMA CloseKeeps ==
  ASSUME NEW k, NEW m, Local(k, m, FALSE), k.state = "CLOSE"
  PROVE  Local([k EXCEPT !.rx = FALSE], m, FALSE) /\ Alike(k, [k EXCEPT !.rx = FALSE])
  <1> DEFINE u == [k EXCEPT !.rx = FALSE]
  <1> SUFFICES Local(u, m, FALSE) /\ Alike(k, u)
    OBVIOUS
  <1> USE NetFieldsAre, CallFieldsAre DEF Alike, SameFlow
  <1>1. /\ Alike(k, u) /\ u.nonblocking = k.nonblocking /\ u.recvmbox = k.recvmbox
             /\ u.rx = FALSE
        /\ u.given = k.given /\ u.refused = k.refused /\ u.fin = k.fin /\ u.unread = k.unread
        /\ u.space = k.space /\ u.read = k.read /\ u.connecting = k.connecting
             /\ u.state = k.state
        /\ u.pcb = k.pcb /\ u.lastErr = k.lastErr /\ u.current = k.current /\ u.sem = k.sem
        /\ u.offset = k.offset /\ u.boxes = k.boxes /\ u.rx \in BOOLEAN /\ DOMAIN u = NetFields
    BY DEF Local, IsNetconn, u
  <1> HIDE DEF u
  <1>3. /\ IsNetconn(k) /\ IsCall(m) /\ Woken(k, m, FALSE) /\ Busy(k, m) /\ Blocks(k, m)
        /\ Shape(k) /\ Made(k, m) /\ Sees(k, m) /\ Pieces(k, m, FALSE) /\ Tells(k, m, FALSE)
    BY DEF Local
  <1>4. IsNetconn(u) /\ IsCall(m)
    <2>1. IsNetconn(u)
      BY <1>1, <1>3 DEF IsNetconn, Answers
    <2>2. IsCall(m)
      BY <1>3 DEF IsCall, Answers
    <2> QED
      BY <2>1, <2>2
  <1>5. ~k.rx /\ k.used /\ k.pcb = "open"
    BY <1>3 DEF Shape
  <1>6. Woken(u, m, FALSE)
    BY <1>1, <1>3, <1>5 DEF IsNetconn, IsCall, Woken, Waits, Answers
  <1>7. Busy(u, m)
    BY <1>1, <1>3, <1>5 DEF IsNetconn, IsCall, Busy, KeepsMessage
  <1>8. Blocks(u, m)
    BY <1>1, <1>3, <1>5 DEF IsNetconn, IsCall, Blocks
  <1>9. Shape(u)
    BY <1>1, <1>3, <1>5 DEF IsNetconn, IsCall, Shape
  <1>10. Made(u, m)
    BY <1>1, <1>3, <1>5 DEF IsNetconn, IsCall, Made, Waits, Receives, Answers
  <1>11. Sees(u, m)
    BY <1>1, <1>3, <1>5 DEF IsNetconn, IsCall, Sees, Waits
  <1>12. Pieces(u, m, FALSE)
    <2>1. ASSUME NEW i \in Nat, InLine(k, m, FALSE, i)
          PROVE  InLine(u, m, FALSE, i)
      BY <2>1, <1>1, <1>3, <1>5 DEF InLine, Base, HasRefused
    <2> QED
      BY <2>1, <1>1, <1>3, <1>5 DEF Pieces
  <1>13. Tells(u, m, FALSE)
    BY <1>1, <1>3, <1>5 DEF IsNetconn, IsCall, Tells
  <1> QED
    BY <1>1, <1>4, <1>5, <1>6, <1>7, <1>8, <1>9,
       <1>10, <1>11, <1>12, <1>13 DEF Local, SameCall, Emptied, Owned, Kin

\* do_connected for a caller that waits.
LEMMA ConnectedTells ==
  ASSUME NEW k, NEW m, Local(k, m, FALSE), k.pcb = "syn", ~k.connecting
  PROVE  /\ Local(Signal([k EXCEPT !.pcb = "open", !.state = "NONE", !.connecting = FALSE,
              !.current = Nobody]), [m EXCEPT !.err = "ok"], FALSE)
         /\ Alike(k, Signal([k EXCEPT !.pcb = "open", !.state = "NONE", !.connecting = FALSE,
              !.current = Nobody]))
         /\ SameCall(m, [m EXCEPT !.err = "ok"])
  <1> DEFINE u == Signal([k EXCEPT !.pcb = "open", !.state = "NONE", !.connecting = FALSE,
                    !.current = Nobody])
             n == [m EXCEPT !.err = "ok"]
  <1> SUFFICES Local(u, n, FALSE) /\ Alike(k, u) /\ SameCall(m, n)
    OBVIOUS
  <1> USE NetFieldsAre, CallFieldsAre DEF Alike, SameFlow
  <1>1. /\ Alike(k, u) /\ u.nonblocking = k.nonblocking /\ SameFlow(k, u)
             /\ u.connecting = FALSE
        /\ u.state = "NONE" /\ u.pcb = "open" /\ u.lastErr = k.lastErr /\ u.current = Nobody
        /\ u.sem = k.sem + 1 /\ u.offset = k.offset /\ u.boxes = k.boxes
        /\ u.connecting \in BOOLEAN /\ DOMAIN u = NetFields
    BY DEF Local, IsNetconn, u, Signal
  <1>2. /\ n.pc = m.pc /\ n.conn = m.conn /\ n.op = m.op /\ n.err = "ok" /\ n.size = m.size
        /\ n.len = m.len /\ n.queued = m.queued /\ n.dontblock = m.dontblock /\ n.got = m.got
        /\ DOMAIN n = CallFields
    BY DEF Local, IsCall, n, Signal
  <1> HIDE DEF u, n
  <1>3. /\ IsNetconn(k) /\ IsCall(m) /\ Woken(k, m, FALSE) /\ Busy(k, m) /\ Blocks(k, m)
        /\ Shape(k) /\ Made(k, m) /\ Sees(k, m) /\ Pieces(k, m, FALSE) /\ Tells(k, m, FALSE)
    BY DEF Local
  <1>4. IsNetconn(u) /\ IsCall(n)
    <2>1. IsNetconn(u)
      BY <1>1, <1>3 DEF IsNetconn, Answers
    <2>2. IsCall(n)
      BY <1>2, <1>3 DEF IsCall, Answers
    <2> QED
      BY <2>1, <2>2
  <1>5. k.used /\ k.rx /\ k.recvmbox = <<>> /\ k.read = 0 /\ ~Receives(m) /\ k.given = 0
          /\ k.refused = 0
        /\ k.fin = "no" /\ k.unread = 0 /\ k.boxes = {"recv"} /\ k.acceptmbox = <<>>
             /\ k.type = "TCP"
        /\ (~k.connecting => k.current = k.owner /\ k.current # Nobody /\ m.op = "connect"
             /\ k.sem = 0)
        /\ (k.connecting => k.current = Nobody) /\ k.offset = 0 /\ m.op # "newconn"
    BY <1>3 DEF Shape, Made, Busy, KeepsMessage, Woken, IsNetconn
  <1>6. Woken(u, n, FALSE)
    BY <1>1, <1>2, <1>3, <1>5 DEF IsNetconn, IsCall, Woken, Waits, Answers
  <1>7. Busy(u, n)
    BY <1>1, <1>2, <1>3, <1>5 DEF IsNetconn, IsCall, Busy, KeepsMessage
  <1>8. Blocks(u, n)
    BY <1>1, <1>2, <1>3, <1>5 DEF IsNetconn, IsCall, Blocks
  <1>9. Shape(u)
    BY <1>1, <1>2, <1>3, <1>5 DEF IsNetconn, IsCall, Shape
  <1>10. Made(u, n)
    BY <1>1, <1>2, <1>3, <1>5 DEF IsNetconn, IsCall, Made, Waits, Receives, Answers
  <1>11. Sees(u, n)
    BY <1>1, <1>2, <1>3, <1>5 DEF IsNetconn, IsCall, Sees, Waits
  <1>12. Pieces(u, n, FALSE)
    <2>1. InLine(u, n, FALSE, 0)
      BY <1>1, <1>2, <1>3, <1>5 DEF InLine, Run, HasPiece, Receives, Waits, Has, HasUntold,
           HasRefused, Base, IsNetconn
    <2> QED
      BY <2>1 DEF Pieces
  <1>13. Tells(u, n, FALSE)
    BY <1>1, <1>2, <1>3, <1>5 DEF IsNetconn, IsCall, Tells
  <1> QED
    BY <1>1, <1>2, <1>4, <1>5, <1>6, <1>7, <1>8, <1>9,
       <1>10, <1>11, <1>12, <1>13 DEF Local, SameCall, Emptied, Owned, Kin

\* do_connected when nobody waits for it.
LEMMA ConnectedKeeps ==
  ASSUME NEW k, NEW m, NEW p, Local(k, m, p), k.pcb = "syn", k.connecting
  PROVE  /\ Local(SafeErr([k EXCEPT !.pcb = "open", !.state = "NONE", !.connecting = FALSE,
              !.current = Nobody], "ok"), m, p)
         /\ Alike(k, SafeErr([k EXCEPT !.pcb = "open", !.state = "NONE", !.connecting = FALSE,
              !.current = Nobody], "ok"))
  <1> DEFINE d == [k EXCEPT !.pcb = "open", !.state = "NONE", !.connecting = FALSE,
                    !.current = Nobody]
             s == SafeErr(d, "ok")
             u == s
  <1> SUFFICES Local(u, m, p) /\ Alike(k, u)
    OBVIOUS
  <1> USE NetFieldsAre, CallFieldsAre DEF Alike, SameFlow
  <1>0. d.lastErr = k.lastErr
    BY DEF Local, IsNetconn
  <1> DEFINE x == IF k.lastErr = "fatal" THEN k.lastErr ELSE "ok"
  <1>s. s = [d EXCEPT !.lastErr = x]
    BY <1>0 DEF SafeErr
  <1>x. x \in Answers /\ (x = "fatal" <=> k.lastErr = "fatal")
    BY DEF Local, IsNetconn, Answers
  <1> HIDE DEF s, x
  <1>1. /\ Alike(k, u) /\ u.nonblocking = k.nonblocking /\ SameFlow(k, u)
             /\ u.connecting = FALSE
        /\ u.state = "NONE" /\ u.pcb = "open" /\ u.lastErr \in Answers
        /\ (u.lastErr = "fatal" <=> k.lastErr = "fatal") /\ u.current = Nobody /\ u.sem = k.sem
        /\ u.offset = k.offset /\ u.boxes = k.boxes /\ u.connecting \in BOOLEAN
        /\ DOMAIN u = NetFields
    BY <1>s, <1>x DEF u, Local, IsNetconn, d
  <1> HIDE DEF u
  <1>3. /\ IsNetconn(k) /\ IsCall(m) /\ Woken(k, m, p) /\ Busy(k, m) /\ Blocks(k, m)
        /\ Shape(k) /\ Made(k, m) /\ Sees(k, m) /\ Pieces(k, m, p) /\ Tells(k, m, p)
    BY DEF Local
  <1>4. IsNetconn(u) /\ IsCall(m)
    <2>1. IsNetconn(u)
      BY <1>1, <1>3 DEF IsNetconn, Answers
    <2>2. IsCall(m)
      BY <1>3 DEF IsCall, Answers
    <2> QED
      BY <2>1, <2>2
  <1>5. k.used /\ k.rx /\ k.recvmbox = <<>> /\ k.read = 0 /\ ~Receives(m) /\ k.given = 0
          /\ k.refused = 0
        /\ k.fin = "no" /\ k.unread = 0 /\ k.boxes = {"recv"} /\ k.acceptmbox = <<>>
             /\ k.type = "TCP"
        /\ (~k.connecting => k.current = k.owner /\ k.current # Nobody /\ m.op = "connect"
             /\ k.sem = 0)
        /\ (k.connecting => k.current = Nobody) /\ k.offset = 0 /\ m.op # "newconn"
    BY <1>3 DEF Shape, Made, Busy, KeepsMessage, Woken, IsNetconn
  <1>6. Woken(u, m, p)
    BY <1>1, <1>3, <1>5 DEF IsNetconn, IsCall, Woken, Waits, Answers
  <1>7. Busy(u, m)
    BY <1>1, <1>3, <1>5 DEF IsNetconn, IsCall, Busy, KeepsMessage
  <1>8. Blocks(u, m)
    BY <1>1, <1>3, <1>5 DEF IsNetconn, IsCall, Blocks
  <1>9. Shape(u)
    BY <1>1, <1>3, <1>5 DEF IsNetconn, IsCall, Shape
  <1>10. Made(u, m)
    BY <1>1, <1>3, <1>5 DEF IsNetconn, IsCall, Made, Waits, Receives, Answers
  <1>11. Sees(u, m)
    BY <1>1, <1>3, <1>5 DEF IsNetconn, IsCall, Sees, Waits
  <1>12. Pieces(u, m, p)
    <2>1. InLine(u, m, p, 0)
      BY <1>1, <1>3, <1>5 DEF InLine, Run, HasPiece, Receives, Waits, Has, HasUntold,
           HasRefused, Base, IsNetconn
    <2> QED
      BY <2>1 DEF Pieces
  <1>13. Tells(u, m, p)
    BY <1>1, <1>3, <1>5 DEF IsNetconn, IsCall, Tells
  <1> QED
    BY <1>1, <1>4, <1>5, <1>6, <1>7, <1>8, <1>9,
       <1>10, <1>11, <1>12, <1>13 DEF Local, SameCall, Emptied, Owned, Kin

\* err_tcp for a caller that waits.
LEMMA ErrTells ==
  ASSUME NEW k, NEW m, Local(k, m, FALSE), k.pcb \in {"syn", "open"}, KeepsMessage(k),
         NEW q \in Seq(Nat), q = IF "recv" \in k.boxes THEN Posted(k.recvmbox, RecvBox, 0)
           ELSE k.recvmbox
  PROVE  /\ Local(Signal([Gone(k) EXCEPT !.lastErr = "fatal", !.state = "NONE",
              !.connecting = FALSE, !.current = Nobody, !.recvmbox = q]),
                [m EXCEPT !.err = "fatal"], FALSE)
         /\ Alike(k, Signal([Gone(k) EXCEPT !.lastErr = "fatal", !.state = "NONE",
              !.connecting = FALSE, !.current = Nobody, !.recvmbox = q]))
         /\ SameCall(m, [m EXCEPT !.err = "fatal"])
  <1> DEFINE u == Signal([Gone(k) EXCEPT !.lastErr = "fatal", !.state = "NONE",
                    !.connecting = FALSE, !.current = Nobody, !.recvmbox = q])
             n == [m EXCEPT !.err = "fatal"]
  <1> SUFFICES Local(u, n, FALSE) /\ Alike(k, u) /\ SameCall(m, n)
    OBVIOUS
  <1> USE NetFieldsAre, CallFieldsAre DEF Alike, SameFlow
  <1>1. /\ Alike(k, u) /\ u.nonblocking = k.nonblocking /\ u.recvmbox = q /\ u.rx = TRUE
        /\ u.given = 0 /\ u.refused = 0 /\ u.fin = "no" /\ u.unread = 0 /\ u.space = SndBuf
        /\ u.read = k.read /\ u.connecting = FALSE /\ u.state = "NONE" /\ u.pcb = "none"
        /\ u.lastErr = "fatal" /\ u.current = Nobody /\ u.sem = k.sem + 1 /\ u.offset = k.offset
        /\ u.boxes = k.boxes /\ u.rx \in BOOLEAN /\ u.connecting \in BOOLEAN
        /\ DOMAIN u = NetFields
    BY ZenonT(60) DEF Local, IsNetconn, u, Signal, Gone
  <1>2. /\ n.pc = m.pc /\ n.conn = m.conn /\ n.op = m.op /\ n.err = "fatal" /\ n.size = m.size
        /\ n.len = m.len /\ n.queued = m.queued /\ n.dontblock = m.dontblock /\ n.got = m.got
        /\ DOMAIN n = CallFields
    BY DEF Local, IsCall, n, Signal, Gone
  <1> HIDE DEF u, n
  <1>3. /\ IsNetconn(k) /\ IsCall(m) /\ Woken(k, m, FALSE) /\ Busy(k, m) /\ Blocks(k, m)
        /\ Shape(k) /\ Made(k, m) /\ Sees(k, m) /\ Pieces(k, m, FALSE) /\ Tells(k, m, FALSE)
    BY DEF Local
  <1>4. IsNetconn(u) /\ IsCall(n)
    <2>1. IsNetconn(u)
      BY <1>1, <1>3, NobodyElse DEF IsNetconn, Answers
    <2>2. IsCall(n)
      BY <1>2, <1>3 DEF IsCall, Answers
    <2> QED
      BY <2>1, <2>2
  <1>5. k.used /\ (KeepsMessage(k) => k.current # Nobody /\ k.sem = 0 /\ Waits(m)
          /\ m.op \notin {"newconn", "recv"})
        /\ (~KeepsMessage(k) => k.current = Nobody) /\ m.op # "newconn" /\ k.acceptmbox = <<>>
        /\ k.boxes \in {{}, {"recv"}} /\ ("recv" \in k.boxes => q # <<>>) /\ k.type = "TCP"
        /\ ("recv" \notin k.boxes => q = k.recvmbox)
        /\ (m.op = "delete" /\ KeepsMessage(k) => k.boxes = {})
    <2>1. k.used /\ k.acceptmbox = <<>> /\ k.type = "TCP" /\ k.boxes \in {{}, {"recv"}}
            /\ m.op # "newconn"
      BY <1>3 DEF Shape, Made, IsNetconn
    <2>2. (KeepsMessage(k) => k.current # Nobody /\ k.sem = 0 /\ Waits(m)
            /\ m.op \notin {"newconn", "recv"})
          /\ (~KeepsMessage(k) => k.current = Nobody)
          /\ (m.op = "delete" /\ KeepsMessage(k) => k.boxes = {})
      BY <1>3 DEF Busy, Woken, KeepsMessage, Shape
    <2>3. "recv" \in k.boxes => q # <<>>
      <3>1. k.recvmbox \in Seq(Nat)
        BY <1>3 DEF IsNetconn
      <3> QED
        BY <3>1, NobodyElse, AppendIs DEF Posted
    <2> QED
      BY <2>1, <2>2, <2>3, <1>3 DEF Made
  <1>6. Woken(u, n, FALSE)
    BY <1>1, <1>2, <1>3, <1>5 DEF IsNetconn, IsCall, Woken, Waits, Answers
  <1>7. Busy(u, n)
    BY <1>1, <1>2, <1>3, <1>5 DEF IsNetconn, IsCall, Busy, KeepsMessage
  <1>8. Blocks(u, n)
    BY <1>1, <1>2, <1>3, <1>5 DEF IsNetconn, IsCall, Blocks
  <1>9. Shape(u)
    BY <1>1, <1>2, <1>3, <1>5 DEF IsNetconn, IsCall, Shape
  <1>10. Made(u, n)
    BY <1>1, <1>2, <1>3, <1>5 DEF IsNetconn, IsCall, Made, Waits, Receives, Answers
  <1>11. Sees(u, n)
    BY <1>1, <1>2, <1>3, <1>5 DEF IsNetconn, IsCall, Sees, Waits
  <1>12. Pieces(u, n, FALSE)
    <2>1. PICK i \in Nat : InLine(k, m, FALSE, i)
      BY <1>3, <1>5 DEF Pieces
    <2>2. q = k.recvmbox \/ q = Append(k.recvmbox, 0)
      BY DEF Posted
    <2>3. Base(u, n) = Base(k, m) /\ Receives(n) = Receives(m) /\ HasPiece(n) = HasPiece(m)
            /\ n.got = m.got
          /\ Base(k, m) \in Nat
      BY <1>1, <1>2, <1>3, <1>5 DEF Base, Has, HasPiece, Receives, IsNetconn
    <2>4. Run(q, Base(k, m), i) /\ i \in 0 .. Len(q)
      <3>1. k.recvmbox \in Seq(Nat) /\ Run(k.recvmbox, Base(k, m), i)
              /\ i \in 0 .. Len(k.recvmbox)
        BY <2>1, <1>3 DEF InLine, IsNetconn
      <3>2. Run(Append(k.recvmbox, 0), Base(k, m), i) /\ i \in 0 .. Len(Append(k.recvmbox, 0))
        BY <2>3, <3>1, RunOn
      <3> QED
        BY <2>2, <3>1, <3>2
    <2>5. InLine(u, n, FALSE, i)
      BY <2>1, <2>3, <2>4, <1>1, <1>2, <1>3, <1>5 DEF InLine
    <2> QED
      BY <2>5 DEF Pieces
  <1>13. Tells(u, n, FALSE)
    BY <1>1, <1>2, <1>3, <1>5 DEF IsNetconn, IsCall, Tells
  <1> QED
    BY <1>1, <1>2, <1>4, <1>5, <1>6, <1>7, <1>8, <1>9,
       <1>10, <1>11, <1>12, <1>13 DEF Local, SameCall, Emptied, Owned, Kin

\* err_tcp when nobody waits for an event.
LEMMA ErrKeeps ==
  ASSUME NEW k, NEW m, NEW p, Local(k, m, p), k.pcb \in {"syn", "open"}, ~KeepsMessage(k),
         NEW q \in Seq(Nat), q = IF "recv" \in k.boxes THEN Posted(k.recvmbox, RecvBox, 0)
           ELSE k.recvmbox
  PROVE  /\ Local([Gone(k) EXCEPT !.lastErr = "fatal", !.state = "NONE", !.connecting = FALSE,
              !.current = Nobody, !.recvmbox = q], m, p)
         /\ Alike(k, [Gone(k) EXCEPT !.lastErr = "fatal", !.state = "NONE",
              !.connecting = FALSE, !.current = Nobody, !.recvmbox = q])
  <1> DEFINE u == [Gone(k) EXCEPT !.lastErr = "fatal", !.state = "NONE", !.connecting = FALSE,
                    !.current = Nobody, !.recvmbox = q]
  <1> SUFFICES Local(u, m, p) /\ Alike(k, u)
    OBVIOUS
  <1> USE NetFieldsAre, CallFieldsAre DEF Alike, SameFlow
  <1>1. /\ Alike(k, u) /\ u.nonblocking = k.nonblocking /\ u.recvmbox = q /\ u.rx = TRUE
        /\ u.given = 0 /\ u.refused = 0 /\ u.fin = "no" /\ u.unread = 0 /\ u.space = SndBuf
        /\ u.read = k.read /\ u.connecting = FALSE /\ u.state = "NONE" /\ u.pcb = "none"
        /\ u.lastErr = "fatal" /\ u.current = Nobody /\ u.sem = k.sem /\ u.offset = k.offset
        /\ u.boxes = k.boxes /\ u.rx \in BOOLEAN /\ u.connecting \in BOOLEAN
        /\ DOMAIN u = NetFields
    BY ZenonT(60) DEF Local, IsNetconn, u, Gone
  <1> HIDE DEF u
  <1>3. /\ IsNetconn(k) /\ IsCall(m) /\ Woken(k, m, p) /\ Busy(k, m) /\ Blocks(k, m)
        /\ Shape(k) /\ Made(k, m) /\ Sees(k, m) /\ Pieces(k, m, p) /\ Tells(k, m, p)
    BY DEF Local
  <1>4. IsNetconn(u) /\ IsCall(m)
    <2>1. IsNetconn(u)
      BY <1>1, <1>3, NobodyElse DEF IsNetconn, Answers
    <2>2. IsCall(m)
      BY <1>3 DEF IsCall, Answers
    <2> QED
      BY <2>1, <2>2
  <1>5. k.used /\ (KeepsMessage(k) => k.current # Nobody /\ k.sem = 0 /\ Waits(m)
          /\ m.op \notin {"newconn", "recv"})
        /\ (~KeepsMessage(k) => k.current = Nobody) /\ m.op # "newconn" /\ k.acceptmbox = <<>>
        /\ k.boxes \in {{}, {"recv"}} /\ ("recv" \in k.boxes => q # <<>>) /\ k.type = "TCP"
        /\ ("recv" \notin k.boxes => q = k.recvmbox)
        /\ (m.op = "delete" /\ KeepsMessage(k) => k.boxes = {})
    <2>1. k.used /\ k.acceptmbox = <<>> /\ k.type = "TCP" /\ k.boxes \in {{}, {"recv"}}
            /\ m.op # "newconn"
      BY <1>3 DEF Shape, Made, IsNetconn
    <2>2. (KeepsMessage(k) => k.current # Nobody /\ k.sem = 0 /\ Waits(m)
            /\ m.op \notin {"newconn", "recv"})
          /\ (~KeepsMessage(k) => k.current = Nobody)
          /\ (m.op = "delete" /\ KeepsMessage(k) => k.boxes = {})
      BY <1>3 DEF Busy, Woken, KeepsMessage, Shape
    <2>3. "recv" \in k.boxes => q # <<>>
      <3>1. k.recvmbox \in Seq(Nat)
        BY <1>3 DEF IsNetconn
      <3> QED
        BY <3>1, NobodyElse, AppendIs DEF Posted
    <2> QED
      BY <2>1, <2>2, <2>3, <1>3 DEF Made
  <1>6. Woken(u, m, p)
    BY <1>1, <1>3, <1>5 DEF IsNetconn, IsCall, Woken, Waits, Answers
  <1>7. Busy(u, m)
    BY <1>1, <1>3, <1>5 DEF IsNetconn, IsCall, Busy, KeepsMessage
  <1>8. Blocks(u, m)
    BY <1>1, <1>3, <1>5 DEF IsNetconn, IsCall, Blocks
  <1>9. Shape(u)
    BY <1>1, <1>3, <1>5 DEF IsNetconn, IsCall, Shape
  <1>10. Made(u, m)
    BY <1>1, <1>3, <1>5 DEF IsNetconn, IsCall, Made, Waits, Receives, Answers
  <1>11. Sees(u, m)
    BY <1>1, <1>3, <1>5 DEF IsNetconn, IsCall, Sees, Waits
  <1>12. Pieces(u, m, p)
    <2>1. PICK i \in Nat : InLine(k, m, p, i)
      BY <1>3, <1>5 DEF Pieces
    <2>2. q = k.recvmbox \/ q = Append(k.recvmbox, 0)
      BY DEF Posted
    <2>3. Base(u, m) = Base(k, m) /\ Receives(m) = Receives(m) /\ HasPiece(m) = HasPiece(m)
            /\ m.got = m.got
          /\ Base(k, m) \in Nat
      BY <1>1, <1>3, <1>5 DEF Base, Has, HasPiece, Receives, IsNetconn
    <2>4. Run(q, Base(k, m), i) /\ i \in 0 .. Len(q)
      <3>1. k.recvmbox \in Seq(Nat) /\ Run(k.recvmbox, Base(k, m), i)
              /\ i \in 0 .. Len(k.recvmbox)
        BY <2>1, <1>3 DEF InLine, IsNetconn
      <3>2. Run(Append(k.recvmbox, 0), Base(k, m), i) /\ i \in 0 .. Len(Append(k.recvmbox, 0))
        BY <2>3, <3>1, RunOn
      <3> QED
        BY <2>2, <3>1, <3>2
    <2>5. InLine(u, m, p, i)
      BY <2>1, <2>3, <2>4, <1>1, <1>3, <1>5 DEF InLine
    <2> QED
      BY <2>5 DEF Pieces
  <1>13. Tells(u, m, p)
    BY <1>1, <1>3, <1>5 DEF IsNetconn, IsCall, Tells
  <1> QED
    BY <1>1, <1>4, <1>5, <1>6, <1>7, <1>8, <1>9,
       <1>10, <1>11, <1>12, <1>13 DEF Local, SameCall, Emptied, Owned, Kin

\* recv_tcp takes a new piece.
LEMMA DataKeeps ==
  ASSUME NEW k, NEW m, NEW p, Local(k, m, p), k.pcb = "open", k.rx, k.refused = 0, k.fin = "no"
  PROVE  /\ Local([SafeErr([k EXCEPT !.given = k.given + 1, !.unread = k.unread + 1],
              "ok") EXCEPT !.recvmbox = Append(k.recvmbox, k.given + 1)], m, p)
         /\ Alike(k, [SafeErr([k EXCEPT !.given = k.given + 1, !.unread = k.unread + 1],
              "ok") EXCEPT !.recvmbox = Append(k.recvmbox, k.given + 1)])
  <1> DEFINE d == [k EXCEPT !.given = k.given + 1, !.unread = k.unread + 1]
             s == SafeErr(d, "ok")
             u == [s EXCEPT !.recvmbox = Append(k.recvmbox, k.given + 1)]
  <1> SUFFICES Local(u, m, p) /\ Alike(k, u)
    OBVIOUS
  <1> USE NetFieldsAre, CallFieldsAre DEF Alike, SameFlow
  <1>0. d.lastErr = k.lastErr
    BY DEF Local, IsNetconn
  <1> DEFINE x == IF k.lastErr = "fatal" THEN k.lastErr ELSE "ok"
  <1>s. s = [d EXCEPT !.lastErr = x]
    BY <1>0 DEF SafeErr
  <1>x. x \in Answers /\ (x = "fatal" <=> k.lastErr = "fatal")
    BY DEF Local, IsNetconn, Answers
  <1> HIDE DEF s, x
  <1>1. /\ Alike(k, u) /\ u.nonblocking = k.nonblocking
        /\ u.recvmbox = Append(k.recvmbox, k.given + 1) /\ u.rx = k.rx /\ u.given = k.given + 1
        /\ u.refused = k.refused /\ u.fin = k.fin /\ u.unread = k.unread + 1
             /\ u.space = k.space
        /\ u.read = k.read /\ u.connecting = k.connecting /\ u.state = k.state /\ u.pcb = k.pcb
        /\ u.lastErr \in Answers /\ (u.lastErr = "fatal" <=> k.lastErr = "fatal")
        /\ u.current = k.current /\ u.sem = k.sem /\ u.offset = k.offset /\ u.boxes = k.boxes
        /\ DOMAIN u = NetFields
    BY <1>s, <1>x DEF u, Local, IsNetconn, d
  <1> HIDE DEF u
  <1>3. /\ IsNetconn(k) /\ IsCall(m) /\ Woken(k, m, p) /\ Busy(k, m) /\ Blocks(k, m)
        /\ Shape(k) /\ Made(k, m) /\ Sees(k, m) /\ Pieces(k, m, p) /\ Tells(k, m, p)
    BY DEF Local
  <1>4. IsNetconn(u) /\ IsCall(m)
    <2>1. IsNetconn(u)
      BY <1>1, <1>3, SMTT(30) DEF IsNetconn, Answers
    <2>2. IsCall(m)
      BY <1>3 DEF IsCall, Answers
    <2> QED
      BY <2>1, <2>2
  <1>5. k.used /\ k.type = "TCP" /\ k.acceptmbox = <<>> /\ k.state # "LISTEN"
          /\ m.op # "newconn"
        /\ u.recvmbox # <<>>
    <2>1. k.used /\ k.type = "TCP" /\ k.acceptmbox = <<>> /\ k.state # "LISTEN"
            /\ m.op # "newconn"
      BY <1>3 DEF Shape, Made, IsNetconn
    <2>2. u.recvmbox # <<>>
      BY <1>1, <1>3, AppendIs DEF IsNetconn
    <2> QED
      BY <2>1, <2>2
  <1>6. Woken(u, m, p)
    BY <1>1, <1>3, <1>5 DEF IsNetconn, IsCall, Woken, Waits, Answers
  <1>7. Busy(u, m)
    BY <1>1, <1>3, <1>5 DEF IsNetconn, IsCall, Busy, KeepsMessage
  <1>8. Blocks(u, m)
    BY <1>1, <1>3, <1>5 DEF IsNetconn, IsCall, Blocks
  <1>9. Shape(u)
    BY <1>1, <1>3, <1>5 DEF IsNetconn, IsCall, Shape
  <1>10. Made(u, m)
    BY <1>1, <1>3, <1>5 DEF IsNetconn, IsCall, Made, Waits, Receives, Answers
  <1>11. Sees(u, m)
    BY <1>1, <1>3, <1>5 DEF IsNetconn, IsCall, Sees, Waits
  <1>12. Pieces(u, m, p)
    <2>1. PICK i \in Nat : InLine(k, m, p, i)
      BY <1>3, <1>5 DEF Pieces
    <2> DEFINE w == i + 1
               h == HasUntold(m, p)
               b == Base(k, m)
    <2>2. Base(u, m) = b /\ b \in Nat /\ h \in Nat
      BY <1>1, <1>3, <1>5 DEF Base, Has, HasUntold, IsNetconn
    <2>w. w = i + 1 /\ w \in Nat
      OBVIOUS
    <2>a. /\ k.rx => k.given = b + i + HasRefused(k)
          /\ k.unread = i + h + HasRefused(k)
      BY <2>1 DEF InLine
    <2>b. k.refused \in Nat /\ k.given \in Nat /\ k.unread \in Int
      BY <1>3 DEF IsNetconn
    <2>4. /\ HasRefused(u) = IF u.refused = 0 THEN 0 ELSE 1
          /\ HasRefused(k) = IF k.refused = 0 THEN 0 ELSE 1
      BY DEF HasRefused
    <2>3. i + 1 \in 0 .. Len(Append(k.recvmbox, k.given + 1)) /\ i = Len(k.recvmbox)
          /\ Len(Append(k.recvmbox, k.given + 1)) = i + 1 /\ k.given = b + i
          /\ Run(Append(k.recvmbox, k.given + 1), b, w)
      BY <2>1, <2>w, <1>3, <1>5, <2>2, RunOn DEF InLine, IsNetconn, HasRefused
    <2> HIDE DEF w, h, b
    <2>5. /\ w \in 0 .. Len(u.recvmbox) /\ Run(u.recvmbox, b, w)
          /\ (u.fin \in {"no", "kept"} => w = Len(u.recvmbox))
          /\ (Receives(m) /\ m.got = 0 => w = 0)
      BY <2>1, <2>2, <2>3, <2>w, <1>1, <1>3, <1>5 DEF InLine, IsNetconn, b
    <2>6. u.rx => u.given = b + w + HasRefused(u)
      BY <2>2, <2>3, <2>4, <2>a, <2>b, <2>w, <1>1
    <2>8. u.unread = w + h + HasRefused(u)
      BY <2>2, <2>3, <2>4, <2>a, <2>b, <2>w, <1>1
    <2>7. /\ u.refused # 0 => u.refused = b + w + 1 /\ u.fin \in {"no", "kept"}
          /\ (u.fin = "kept" => u.refused # 0)
          /\ (u.fin \in {"no", "kept"} => (Receives(m) => m.got # 0))
          /\ (HasPiece(m) => m.got = u.read + 1)
      BY <2>1, <2>2, <2>3, <2>w, <1>1, <1>3, <1>5 DEF InLine, IsNetconn, b
    <2>9. InLine(u, m, p, w)
      BY <2>2, <2>5, <2>6, <2>7, <2>8 DEF InLine, h
    <2> QED
      BY <2>w, <2>9 DEF Pieces
  <1>13. Tells(u, m, p)
    BY <1>1, <1>3, <1>5 DEF IsNetconn, IsCall, Tells
  <1> QED
    BY <1>1, <1>4, <1>5, <1>6, <1>7, <1>8, <1>9,
       <1>10, <1>11, <1>12, <1>13 DEF Local, SameCall, Emptied, Owned, Kin

\* recv_tcp has no room for a new piece.
LEMMA DataWaits ==
  ASSUME NEW k, NEW m, NEW p, Local(k, m, p), k.pcb = "open", k.rx, k.refused = 0, k.fin = "no"
  PROVE  /\ Local([SafeErr([k EXCEPT !.given = k.given + 1, !.unread = k.unread + 1],
              "ok") EXCEPT !.refused = k.given + 1], m, p)
         /\ Alike(k, [SafeErr([k EXCEPT !.given = k.given + 1, !.unread = k.unread + 1],
              "ok") EXCEPT !.refused = k.given + 1])
  <1> DEFINE d == [k EXCEPT !.given = k.given + 1, !.unread = k.unread + 1]
             s == SafeErr(d, "ok")
             u == [s EXCEPT !.refused = k.given + 1]
  <1> SUFFICES Local(u, m, p) /\ Alike(k, u)
    OBVIOUS
  <1> USE NetFieldsAre, CallFieldsAre DEF Alike, SameFlow
  <1>0. d.lastErr = k.lastErr
    BY DEF Local, IsNetconn
  <1> DEFINE x == IF k.lastErr = "fatal" THEN k.lastErr ELSE "ok"
  <1>s. s = [d EXCEPT !.lastErr = x]
    BY <1>0 DEF SafeErr
  <1>x. x \in Answers /\ (x = "fatal" <=> k.lastErr = "fatal")
    BY DEF Local, IsNetconn, Answers
  <1> HIDE DEF s, x
  <1>1. /\ Alike(k, u) /\ u.nonblocking = k.nonblocking /\ u.recvmbox = k.recvmbox
             /\ u.rx = k.rx
        /\ u.given = k.given + 1 /\ u.refused = k.given + 1 /\ u.fin = k.fin
        /\ u.unread = k.unread + 1 /\ u.space = k.space /\ u.read = k.read
        /\ u.connecting = k.connecting /\ u.state = k.state /\ u.pcb = k.pcb
        /\ u.lastErr \in Answers /\ (u.lastErr = "fatal" <=> k.lastErr = "fatal")
        /\ u.current = k.current /\ u.sem = k.sem /\ u.offset = k.offset /\ u.boxes = k.boxes
        /\ DOMAIN u = NetFields
    BY <1>s, <1>x DEF u, Local, IsNetconn, d
  <1> HIDE DEF u
  <1>3. /\ IsNetconn(k) /\ IsCall(m) /\ Woken(k, m, p) /\ Busy(k, m) /\ Blocks(k, m)
        /\ Shape(k) /\ Made(k, m) /\ Sees(k, m) /\ Pieces(k, m, p) /\ Tells(k, m, p)
    BY DEF Local
  <1>4. IsNetconn(u) /\ IsCall(m)
    <2>1. IsNetconn(u)
      BY <1>1, <1>3 DEF IsNetconn, Answers
    <2>2. IsCall(m)
      BY <1>3 DEF IsCall, Answers
    <2> QED
      BY <2>1, <2>2
  <1>5. k.used /\ k.type = "TCP" /\ k.acceptmbox = <<>> /\ k.state # "LISTEN"
          /\ m.op # "newconn"
    BY <1>3 DEF Shape, Made, IsNetconn
  <1>6. Woken(u, m, p)
    BY <1>1, <1>3, <1>5 DEF IsNetconn, IsCall, Woken, Waits, Answers
  <1>7. Busy(u, m)
    BY <1>1, <1>3, <1>5 DEF IsNetconn, IsCall, Busy, KeepsMessage
  <1>8. Blocks(u, m)
    BY <1>1, <1>3, <1>5 DEF IsNetconn, IsCall, Blocks
  <1>9. Shape(u)
    BY <1>1, <1>3, <1>5 DEF IsNetconn, IsCall, Shape
  <1>10. Made(u, m)
    BY <1>1, <1>3, <1>5 DEF IsNetconn, IsCall, Made, Waits, Receives, Answers
  <1>11. Sees(u, m)
    BY <1>1, <1>3, <1>5 DEF IsNetconn, IsCall, Sees, Waits
  <1>12. Pieces(u, m, p)
    <2>1. PICK i \in Nat : InLine(k, m, p, i)
      BY <1>3, <1>5 DEF Pieces
    <2> DEFINE w == i
               h == HasUntold(m, p)
               b == Base(k, m)
    <2>2. Base(u, m) = b /\ b \in Nat /\ h \in Nat
      BY <1>1, <1>3, <1>5 DEF Base, Has, HasUntold, IsNetconn
    <2>w. w = i /\ w \in Nat
      OBVIOUS
    <2>a. /\ k.rx => k.given = b + i + HasRefused(k)
          /\ k.unread = i + h + HasRefused(k)
      BY <2>1 DEF InLine
    <2>b. k.refused \in Nat /\ k.given \in Nat /\ k.unread \in Int
      BY <1>3 DEF IsNetconn
    <2>4. /\ HasRefused(u) = IF u.refused = 0 THEN 0 ELSE 1
          /\ HasRefused(k) = IF k.refused = 0 THEN 0 ELSE 1
      BY DEF HasRefused
    <2>3. i = Len(k.recvmbox) /\ k.given = b + i
          /\ HasRefused(u) = 1 /\ HasRefused(k) = 0
      BY <2>1, <2>w, <1>3, <1>5, <2>2, <1>1 DEF InLine, IsNetconn, HasRefused
    <2> HIDE DEF w, h, b
    <2>5. /\ w \in 0 .. Len(u.recvmbox) /\ Run(u.recvmbox, b, w)
          /\ (u.fin \in {"no", "kept"} => w = Len(u.recvmbox))
          /\ (Receives(m) /\ m.got = 0 => w = 0)
      BY <2>1, <2>2, <2>3, <2>w, <1>1, <1>3, <1>5 DEF InLine, IsNetconn, b
    <2>6. u.rx => u.given = b + w + HasRefused(u)
      BY <2>2, <2>3, <2>4, <2>a, <2>b, <2>w, <1>1
    <2>8. u.unread = w + h + HasRefused(u)
      BY <2>2, <2>3, <2>4, <2>a, <2>b, <2>w, <1>1
    <2>7. /\ u.refused # 0 => u.refused = b + w + 1 /\ u.fin \in {"no", "kept"}
          /\ (u.fin = "kept" => u.refused # 0)
          /\ (u.fin \in {"no", "kept"} => (Receives(m) => m.got # 0))
          /\ (HasPiece(m) => m.got = u.read + 1)
      BY <2>1, <2>2, <2>3, <2>w, <1>1, <1>3, <1>5 DEF InLine, IsNetconn, b
    <2>9. InLine(u, m, p, w)
      BY <2>2, <2>5, <2>6, <2>7, <2>8 DEF InLine, h
    <2> QED
      BY <2>w, <2>9 DEF Pieces
  <1>13. Tells(u, m, p)
    BY <1>1, <1>3, <1>5 DEF IsNetconn, IsCall, Tells
  <1> QED
    BY <1>1, <1>4, <1>5, <1>6, <1>7, <1>8, <1>9,
       <1>10, <1>11, <1>12, <1>13 DEF Local, SameCall, Emptied, Owned, Kin

\* The end is kept with the refused piece.
LEMMA FinWaits ==
  ASSUME NEW k, NEW m, NEW p, Local(k, m, p), k.pcb = "open", k.refused # 0
  PROVE  Local([k EXCEPT !.fin = "kept"], m, p) /\ Alike(k, [k EXCEPT !.fin = "kept"])
  <1> DEFINE u == [k EXCEPT !.fin = "kept"]
  <1> SUFFICES Local(u, m, p) /\ Alike(k, u)
    OBVIOUS
  <1> USE NetFieldsAre, CallFieldsAre DEF Alike, SameFlow
  <1>1. /\ Alike(k, u) /\ u.nonblocking = k.nonblocking /\ u.recvmbox = k.recvmbox
             /\ u.rx = k.rx
        /\ u.given = k.given /\ u.refused = k.refused /\ u.fin = "kept" /\ u.unread = k.unread
        /\ u.space = k.space /\ u.read = k.read /\ u.connecting = k.connecting
             /\ u.state = k.state
        /\ u.pcb = k.pcb /\ u.lastErr = k.lastErr /\ u.current = k.current /\ u.sem = k.sem
        /\ u.offset = k.offset /\ u.boxes = k.boxes /\ DOMAIN u = NetFields
    BY DEF Local, IsNetconn, u
  <1> HIDE DEF u
  <1>3. /\ IsNetconn(k) /\ IsCall(m) /\ Woken(k, m, p) /\ Busy(k, m) /\ Blocks(k, m)
        /\ Shape(k) /\ Made(k, m) /\ Sees(k, m) /\ Pieces(k, m, p) /\ Tells(k, m, p)
    BY DEF Local
  <1>4. IsNetconn(u) /\ IsCall(m)
    <2>1. IsNetconn(u)
      BY <1>1, <1>3 DEF IsNetconn, Answers
    <2>2. IsCall(m)
      BY <1>3 DEF IsCall, Answers
    <2> QED
      BY <2>1, <2>2
  <1>5. k.used /\ k.type = "TCP" /\ k.acceptmbox = <<>> /\ k.state # "LISTEN"
          /\ m.op # "newconn"
    BY <1>3 DEF Shape, Made, IsNetconn
  <1>6. Woken(u, m, p)
    BY <1>1, <1>3, <1>5 DEF IsNetconn, IsCall, Woken, Waits, Answers
  <1>7. Busy(u, m)
    BY <1>1, <1>3, <1>5 DEF IsNetconn, IsCall, Busy, KeepsMessage
  <1>8. Blocks(u, m)
    BY <1>1, <1>3, <1>5 DEF IsNetconn, IsCall, Blocks
  <1>9. Shape(u)
    BY <1>1, <1>3, <1>5 DEF IsNetconn, IsCall, Shape
  <1>10. Made(u, m)
    BY <1>1, <1>3, <1>5 DEF IsNetconn, IsCall, Made, Waits, Receives, Answers
  <1>11. Sees(u, m)
    BY <1>1, <1>3, <1>5 DEF IsNetconn, IsCall, Sees, Waits
  <1>12. Pieces(u, m, p)
    <2>1. PICK i \in Nat : InLine(k, m, p, i)
      BY <1>3, <1>5 DEF Pieces
    <2> DEFINE w == i
               h == HasUntold(m, p)
               b == Base(k, m)
    <2>2. Base(u, m) = b /\ b \in Nat /\ h \in Nat
      BY <1>1, <1>3, <1>5 DEF Base, Has, HasUntold, IsNetconn
    <2>w. w = i /\ w \in Nat
      OBVIOUS
    <2>a. /\ k.rx => k.given = b + i + HasRefused(k)
          /\ k.unread = i + h + HasRefused(k)
      BY <2>1 DEF InLine
    <2>b. k.refused \in Nat /\ k.given \in Nat /\ k.unread \in Int
      BY <1>3 DEF IsNetconn
    <2>4. /\ HasRefused(u) = IF u.refused = 0 THEN 0 ELSE 1
          /\ HasRefused(k) = IF k.refused = 0 THEN 0 ELSE 1
      BY DEF HasRefused
    <2>3. TRUE
      BY <2>1, <2>w, <1>3, <1>5 DEF InLine, IsNetconn, HasRefused
    <2> HIDE DEF w, h, b
    <2>5. /\ w \in 0 .. Len(u.recvmbox) /\ Run(u.recvmbox, b, w)
          /\ (u.fin \in {"no", "kept"} => w = Len(u.recvmbox))
          /\ (Receives(m) /\ m.got = 0 => w = 0)
      BY <2>1, <2>2, <2>3, <2>w, <1>1, <1>3, <1>5 DEF InLine, IsNetconn, b
    <2>6. u.rx => u.given = b + w + HasRefused(u)
      BY <2>2, <2>3, <2>4, <2>a, <2>b, <2>w, <1>1
    <2>8. u.unread = w + h + HasRefused(u)
      BY <2>2, <2>3, <2>4, <2>a, <2>b, <2>w, <1>1
    <2>7. /\ u.refused # 0 => u.refused = b + w + 1 /\ u.fin \in {"no", "kept"}
          /\ (u.fin = "kept" => u.refused # 0)
          /\ (u.fin \in {"no", "kept"} => (Receives(m) => m.got # 0))
          /\ (HasPiece(m) => m.got = u.read + 1)
      BY <2>1, <2>2, <2>3, <2>w, <1>1, <1>3, <1>5 DEF InLine, IsNetconn, b
    <2>9. InLine(u, m, p, w)
      BY <2>2, <2>5, <2>6, <2>7, <2>8 DEF InLine, h
    <2> QED
      BY <2>w, <2>9 DEF Pieces
  <1>13. Tells(u, m, p)
    BY <1>1, <1>3, <1>5 DEF IsNetconn, IsCall, Tells
  <1> QED
    BY <1>1, <1>4, <1>5, <1>6, <1>7, <1>8, <1>9,
       <1>10, <1>11, <1>12, <1>13 DEF Local, SameCall, Emptied, Owned, Kin

\* The end has been told.
LEMMA FinKeeps ==
  ASSUME NEW k, NEW m, NEW p, Local(k, m, p), k.pcb = "open", k.refused = 0
  PROVE  Local([k EXCEPT !.fin = "told"], m, p) /\ Alike(k, [k EXCEPT !.fin = "told"])
  <1> DEFINE u == [k EXCEPT !.fin = "told"]
  <1> SUFFICES Local(u, m, p) /\ Alike(k, u)
    OBVIOUS
  <1> USE NetFieldsAre, CallFieldsAre DEF Alike, SameFlow
  <1>1. /\ Alike(k, u) /\ u.nonblocking = k.nonblocking /\ u.recvmbox = k.recvmbox
             /\ u.rx = k.rx
        /\ u.given = k.given /\ u.refused = k.refused /\ u.fin = "told" /\ u.unread = k.unread
        /\ u.space = k.space /\ u.read = k.read /\ u.connecting = k.connecting
             /\ u.state = k.state
        /\ u.pcb = k.pcb /\ u.lastErr = k.lastErr /\ u.current = k.current /\ u.sem = k.sem
        /\ u.offset = k.offset /\ u.boxes = k.boxes /\ DOMAIN u = NetFields
    BY DEF Local, IsNetconn, u
  <1> HIDE DEF u
  <1>3. /\ IsNetconn(k) /\ IsCall(m) /\ Woken(k, m, p) /\ Busy(k, m) /\ Blocks(k, m)
        /\ Shape(k) /\ Made(k, m) /\ Sees(k, m) /\ Pieces(k, m, p) /\ Tells(k, m, p)
    BY DEF Local
  <1>4. IsNetconn(u) /\ IsCall(m)
    <2>1. IsNetconn(u)
      BY <1>1, <1>3 DEF IsNetconn, Answers
    <2>2. IsCall(m)
      BY <1>3 DEF IsCall, Answers
    <2> QED
      BY <2>1, <2>2
  <1>5. k.used /\ k.type = "TCP" /\ k.acceptmbox = <<>> /\ k.state # "LISTEN"
          /\ m.op # "newconn"
    BY <1>3 DEF Shape, Made, IsNetconn
  <1>6. Woken(u, m, p)
    BY <1>1, <1>3, <1>5 DEF IsNetconn, IsCall, Woken, Waits, Answers
  <1>7. Busy(u, m)
    BY <1>1, <1>3, <1>5 DEF IsNetconn, IsCall, Busy, KeepsMessage
  <1>8. Blocks(u, m)
    BY <1>1, <1>3, <1>5 DEF IsNetconn, IsCall, Blocks
  <1>9. Shape(u)
    BY <1>1, <1>3, <1>5 DEF IsNetconn, IsCall, Shape
  <1>10. Made(u, m)
    BY <1>1, <1>3, <1>5 DEF IsNetconn, IsCall, Made, Waits, Receives, Answers
  <1>11. Sees(u, m)
    BY <1>1, <1>3, <1>5 DEF IsNetconn, IsCall, Sees, Waits
  <1>12. Pieces(u, m, p)
    <2>1. PICK i \in Nat : InLine(k, m, p, i)
      BY <1>3, <1>5 DEF Pieces
    <2> DEFINE w == i
               h == HasUntold(m, p)
               b == Base(k, m)
    <2>2. Base(u, m) = b /\ b \in Nat /\ h \in Nat
      BY <1>1, <1>3, <1>5 DEF Base, Has, HasUntold, IsNetconn
    <2>w. w = i /\ w \in Nat
      OBVIOUS
    <2>a. /\ k.rx => k.given = b + i + HasRefused(k)
          /\ k.unread = i + h + HasRefused(k)
      BY <2>1 DEF InLine
    <2>b. k.refused \in Nat /\ k.given \in Nat /\ k.unread \in Int
      BY <1>3 DEF IsNetconn
    <2>4. /\ HasRefused(u) = IF u.refused = 0 THEN 0 ELSE 1
          /\ HasRefused(k) = IF k.refused = 0 THEN 0 ELSE 1
      BY DEF HasRefused
    <2>3. TRUE
      BY <2>1, <2>w, <1>3, <1>5 DEF InLine, IsNetconn, HasRefused
    <2> HIDE DEF w, h, b
    <2>5. /\ w \in 0 .. Len(u.recvmbox) /\ Run(u.recvmbox, b, w)
          /\ (u.fin \in {"no", "kept"} => w = Len(u.recvmbox))
          /\ (Receives(m) /\ m.got = 0 => w = 0)
      BY <2>1, <2>2, <2>3, <2>w, <1>1, <1>3, <1>5 DEF InLine, IsNetconn, b
    <2>6. u.rx => u.given = b + w + HasRefused(u)
      BY <2>2, <2>3, <2>4, <2>a, <2>b, <2>w, <1>1
    <2>8. u.unread = w + h + HasRefused(u)
      BY <2>2, <2>3, <2>4, <2>a, <2>b, <2>w, <1>1
    <2>7. /\ u.refused # 0 => u.refused = b + w + 1 /\ u.fin \in {"no", "kept"}
          /\ (u.fin = "kept" => u.refused # 0)
          /\ (u.fin \in {"no", "kept"} => (Receives(m) => m.got # 0))
          /\ (HasPiece(m) => m.got = u.read + 1)
      BY <2>1, <2>2, <2>3, <2>w, <1>1, <1>3, <1>5 DEF InLine, IsNetconn, b
    <2>9. InLine(u, m, p, w)
      BY <2>2, <2>5, <2>6, <2>7, <2>8 DEF InLine, h
    <2> QED
      BY <2>w, <2>9 DEF Pieces
  <1>13. Tells(u, m, p)
    BY <1>1, <1>3, <1>5 DEF IsNetconn, IsCall, Tells
  <1> QED
    BY <1>1, <1>4, <1>5, <1>6, <1>7, <1>8, <1>9,
       <1>10, <1>11, <1>12, <1>13 DEF Local, SameCall, Emptied, Owned, Kin

\* recv_tcp takes the end.
LEMMA EndTaken ==
  ASSUME NEW k, NEW m, NEW p, Local(k, m, p), k.pcb = "open", k.rx, k.fin = "told"
  PROVE  /\ Local([SafeErr(k, "ok") EXCEPT !.recvmbox = Append(k.recvmbox, 0)], m, p)
         /\ Alike(k, [SafeErr(k, "ok") EXCEPT !.recvmbox = Append(k.recvmbox, 0)])
  <1> DEFINE s == SafeErr(k, "ok")
             u == [s EXCEPT !.recvmbox = Append(k.recvmbox, 0)]
  <1> SUFFICES Local(u, m, p) /\ Alike(k, u)
    OBVIOUS
  <1> USE NetFieldsAre, CallFieldsAre DEF Alike, SameFlow
  <1>0. k.lastErr = k.lastErr
    BY DEF Local, IsNetconn
  <1> DEFINE x == IF k.lastErr = "fatal" THEN k.lastErr ELSE "ok"
  <1>s. s = [k EXCEPT !.lastErr = x]
    BY <1>0 DEF SafeErr
  <1>x. x \in Answers /\ (x = "fatal" <=> k.lastErr = "fatal")
    BY DEF Local, IsNetconn, Answers
  <1> HIDE DEF s, x
  <1>1. /\ Alike(k, u) /\ u.nonblocking = k.nonblocking /\ u.recvmbox = Append(k.recvmbox, 0)
        /\ u.rx = k.rx /\ u.given = k.given /\ u.refused = k.refused /\ u.fin = k.fin
        /\ u.unread = k.unread /\ u.space = k.space /\ u.read = k.read
        /\ u.connecting = k.connecting /\ u.state = k.state /\ u.pcb = k.pcb
        /\ u.lastErr \in Answers /\ (u.lastErr = "fatal" <=> k.lastErr = "fatal")
        /\ u.current = k.current /\ u.sem = k.sem /\ u.offset = k.offset /\ u.boxes = k.boxes
        /\ DOMAIN u = NetFields
    BY <1>s, <1>x DEF u, Local, IsNetconn
  <1> HIDE DEF u
  <1>3. /\ IsNetconn(k) /\ IsCall(m) /\ Woken(k, m, p) /\ Busy(k, m) /\ Blocks(k, m)
        /\ Shape(k) /\ Made(k, m) /\ Sees(k, m) /\ Pieces(k, m, p) /\ Tells(k, m, p)
    BY DEF Local
  <1>4. IsNetconn(u) /\ IsCall(m)
    <2>1. IsNetconn(u)
      BY <1>1, <1>3 DEF IsNetconn, Answers
    <2>2. IsCall(m)
      BY <1>3 DEF IsCall, Answers
    <2> QED
      BY <2>1, <2>2
  <1>5. k.used /\ k.type = "TCP" /\ k.acceptmbox = <<>> /\ k.state # "LISTEN"
          /\ m.op # "newconn"
        /\ u.recvmbox # <<>>
    <2>1. k.used /\ k.type = "TCP" /\ k.acceptmbox = <<>> /\ k.state # "LISTEN"
            /\ m.op # "newconn"
      BY <1>3 DEF Shape, Made, IsNetconn
    <2>2. u.recvmbox # <<>>
      BY <1>1, <1>3, AppendIs, SMTT(30) DEF IsNetconn
    <2> QED
      BY <2>1, <2>2
  <1>6. Woken(u, m, p)
    BY <1>1, <1>3, <1>5 DEF IsNetconn, IsCall, Woken, Waits, Answers
  <1>7. Busy(u, m)
    BY <1>1, <1>3, <1>5 DEF IsNetconn, IsCall, Busy, KeepsMessage
  <1>8. Blocks(u, m)
    BY <1>1, <1>3, <1>5 DEF IsNetconn, IsCall, Blocks
  <1>9. Shape(u)
    BY <1>1, <1>3, <1>5 DEF IsNetconn, IsCall, Shape
  <1>10. Made(u, m)
    BY <1>1, <1>3, <1>5 DEF IsNetconn, IsCall, Made, Waits, Receives, Answers
  <1>11. Sees(u, m)
    BY <1>1, <1>3, <1>5 DEF IsNetconn, IsCall, Sees, Waits
  <1>12. Pieces(u, m, p)
    <2>1. PICK i \in Nat : InLine(k, m, p, i)
      BY <1>3, <1>5 DEF Pieces
    <2> DEFINE w == i
               h == HasUntold(m, p)
               b == Base(k, m)
    <2>2. Base(u, m) = b /\ b \in Nat /\ h \in Nat
      BY <1>1, <1>3, <1>5 DEF Base, Has, HasUntold, IsNetconn
    <2>w. w = i /\ w \in Nat
      OBVIOUS
    <2>a. /\ k.rx => k.given = b + i + HasRefused(k)
          /\ k.unread = i + h + HasRefused(k)
      BY <2>1 DEF InLine
    <2>b. k.refused \in Nat /\ k.given \in Nat /\ k.unread \in Int
      BY <1>3 DEF IsNetconn
    <2>4. /\ HasRefused(u) = IF u.refused = 0 THEN 0 ELSE 1
          /\ HasRefused(k) = IF k.refused = 0 THEN 0 ELSE 1
      BY DEF HasRefused
    <2>3. i \in 0 .. Len(Append(k.recvmbox, 0)) /\ Run(Append(k.recvmbox, 0), b, i)
      BY <2>1, <2>w, <1>3, <1>5, <2>2, RunOn DEF InLine, IsNetconn, HasRefused
    <2> HIDE DEF w, h, b
    <2>5. /\ w \in 0 .. Len(u.recvmbox) /\ Run(u.recvmbox, b, w)
          /\ (u.fin \in {"no", "kept"} => w = Len(u.recvmbox))
          /\ (Receives(m) /\ m.got = 0 => w = 0)
      BY <2>1, <2>2, <2>3, <2>w, <1>1, <1>3, <1>5 DEF InLine, IsNetconn, b
    <2>6. u.rx => u.given = b + w + HasRefused(u)
      BY <2>2, <2>3, <2>4, <2>a, <2>b, <2>w, <1>1
    <2>8. u.unread = w + h + HasRefused(u)
      BY <2>2, <2>3, <2>4, <2>a, <2>b, <2>w, <1>1
    <2>7. /\ u.refused # 0 => u.refused = b + w + 1 /\ u.fin \in {"no", "kept"}
          /\ (u.fin = "kept" => u.refused # 0)
          /\ (u.fin \in {"no", "kept"} => (Receives(m) => m.got # 0))
          /\ (HasPiece(m) => m.got = u.read + 1)
      BY <2>1, <2>2, <2>3, <2>w, <1>1, <1>3, <1>5 DEF InLine, IsNetconn, b
    <2>9. InLine(u, m, p, w)
      BY <2>2, <2>5, <2>6, <2>7, <2>8 DEF InLine, h
    <2> QED
      BY <2>w, <2>9 DEF Pieces
  <1>13. Tells(u, m, p)
    BY <1>1, <1>3, <1>5 DEF IsNetconn, IsCall, Tells
  <1> QED
    BY <1>1, <1>4, <1>5, <1>6, <1>7, <1>8, <1>9,
       <1>10, <1>11, <1>12, <1>13 DEF Local, SameCall, Emptied, Owned, Kin

\* recv_tcp has no room for the end.
LEMMA EndLost ==
  ASSUME NEW k, NEW m, NEW p, Local(k, m, p), k.pcb = "open", k.rx, k.fin = "told"
  PROVE  /\ Local([SafeErr(k, "ok") EXCEPT !.fin = "lost"], m, p)
         /\ Alike(k, [SafeErr(k, "ok") EXCEPT !.fin = "lost"])
  <1> DEFINE s == SafeErr(k, "ok")
             u == [s EXCEPT !.fin = "lost"]
  <1> SUFFICES Local(u, m, p) /\ Alike(k, u)
    OBVIOUS
  <1> USE NetFieldsAre, CallFieldsAre DEF Alike, SameFlow
  <1>0. k.lastErr = k.lastErr
    BY DEF Local, IsNetconn
  <1> DEFINE x == IF k.lastErr = "fatal" THEN k.lastErr ELSE "ok"
  <1>s. s = [k EXCEPT !.lastErr = x]
    BY <1>0 DEF SafeErr
  <1>x. x \in Answers /\ (x = "fatal" <=> k.lastErr = "fatal")
    BY DEF Local, IsNetconn, Answers
  <1> HIDE DEF s, x
  <1>1. /\ Alike(k, u) /\ u.nonblocking = k.nonblocking /\ u.recvmbox = k.recvmbox
             /\ u.rx = k.rx
        /\ u.given = k.given /\ u.refused = k.refused /\ u.fin = "lost" /\ u.unread = k.unread
        /\ u.space = k.space /\ u.read = k.read /\ u.connecting = k.connecting
             /\ u.state = k.state
        /\ u.pcb = k.pcb /\ u.lastErr \in Answers
             /\ (u.lastErr = "fatal" <=> k.lastErr = "fatal")
        /\ u.current = k.current /\ u.sem = k.sem /\ u.offset = k.offset /\ u.boxes = k.boxes
        /\ DOMAIN u = NetFields
    BY <1>s, <1>x DEF u, Local, IsNetconn
  <1> HIDE DEF u
  <1>3. /\ IsNetconn(k) /\ IsCall(m) /\ Woken(k, m, p) /\ Busy(k, m) /\ Blocks(k, m)
        /\ Shape(k) /\ Made(k, m) /\ Sees(k, m) /\ Pieces(k, m, p) /\ Tells(k, m, p)
    BY DEF Local
  <1>4. IsNetconn(u) /\ IsCall(m)
    <2>1. IsNetconn(u)
      BY <1>1, <1>3 DEF IsNetconn, Answers
    <2>2. IsCall(m)
      BY <1>3 DEF IsCall, Answers
    <2> QED
      BY <2>1, <2>2
  <1>5. k.used /\ k.type = "TCP" /\ k.acceptmbox = <<>> /\ k.state # "LISTEN"
          /\ m.op # "newconn"
    BY <1>3 DEF Shape, Made, IsNetconn
  <1>6. Woken(u, m, p)
    BY <1>1, <1>3, <1>5 DEF IsNetconn, IsCall, Woken, Waits, Answers
  <1>7. Busy(u, m)
    BY <1>1, <1>3, <1>5 DEF IsNetconn, IsCall, Busy, KeepsMessage
  <1>8. Blocks(u, m)
    BY <1>1, <1>3, <1>5 DEF IsNetconn, IsCall, Blocks
  <1>9. Shape(u)
    BY <1>1, <1>3, <1>5 DEF IsNetconn, IsCall, Shape
  <1>10. Made(u, m)
    BY <1>1, <1>3, <1>5 DEF IsNetconn, IsCall, Made, Waits, Receives, Answers
  <1>11. Sees(u, m)
    BY <1>1, <1>3, <1>5 DEF IsNetconn, IsCall, Sees, Waits
  <1>12. Pieces(u, m, p)
    <2>1. PICK i \in Nat : InLine(k, m, p, i)
      BY <1>3, <1>5 DEF Pieces
    <2> DEFINE w == i
               h == HasUntold(m, p)
               b == Base(k, m)
    <2>2. Base(u, m) = b /\ b \in Nat /\ h \in Nat
      BY <1>1, <1>3, <1>5 DEF Base, Has, HasUntold, IsNetconn
    <2>w. w = i /\ w \in Nat
      OBVIOUS
    <2>a. /\ k.rx => k.given = b + i + HasRefused(k)
          /\ k.unread = i + h + HasRefused(k)
      BY <2>1 DEF InLine
    <2>b. k.refused \in Nat /\ k.given \in Nat /\ k.unread \in Int
      BY <1>3 DEF IsNetconn
    <2>4. /\ HasRefused(u) = IF u.refused = 0 THEN 0 ELSE 1
          /\ HasRefused(k) = IF k.refused = 0 THEN 0 ELSE 1
      BY DEF HasRefused
    <2>3. TRUE
      BY <2>1, <2>w, <1>3, <1>5 DEF InLine, IsNetconn, HasRefused
    <2> HIDE DEF w, h, b
    <2>5. /\ w \in 0 .. Len(u.recvmbox) /\ Run(u.recvmbox, b, w)
          /\ (u.fin \in {"no", "kept"} => w = Len(u.recvmbox))
          /\ (Receives(m) /\ m.got = 0 => w = 0)
      BY <2>1, <2>2, <2>3, <2>w, <1>1, <1>3, <1>5 DEF InLine, IsNetconn, b
    <2>6. u.rx => u.given = b + w + HasRefused(u)
      BY <2>2, <2>3, <2>4, <2>a, <2>b, <2>w, <1>1
    <2>8. u.unread = w + h + HasRefused(u)
      BY <2>2, <2>3, <2>4, <2>a, <2>b, <2>w, <1>1
    <2>7. /\ u.refused # 0 => u.refused = b + w + 1 /\ u.fin \in {"no", "kept"}
          /\ (u.fin = "kept" => u.refused # 0)
          /\ (u.fin \in {"no", "kept"} => (Receives(m) => m.got # 0))
          /\ (HasPiece(m) => m.got = u.read + 1)
      BY <2>1, <2>2, <2>3, <2>w, <1>1, <1>3, <1>5 DEF InLine, IsNetconn, b
    <2>9. InLine(u, m, p, w)
      BY <2>2, <2>5, <2>6, <2>7, <2>8 DEF InLine, h
    <2> QED
      BY <2>w, <2>9 DEF Pieces
  <1>13. Tells(u, m, p)
    BY <1>1, <1>3, <1>5 DEF IsNetconn, IsCall, Tells
  <1> QED
    BY <1>1, <1>4, <1>5, <1>6, <1>7, <1>8, <1>9,
       <1>10, <1>11, <1>12, <1>13 DEF Local, SameCall, Emptied, Owned, Kin

\* recv_tcp has no room for the refused piece yet.
LEMMA RefusedWaits ==
  ASSUME NEW k, NEW m, NEW p, Local(k, m, p), k.pcb = "open", k.rx, k.refused # 0
  PROVE  /\ Local([SafeErr([k EXCEPT !.refused = 0], "ok") EXCEPT !.refused = k.refused], m, p)
         /\ Alike(k, [SafeErr([k EXCEPT !.refused = 0], "ok") EXCEPT !.refused = k.refused])
  <1> DEFINE d == [k EXCEPT !.refused = 0]
             s == SafeErr(d, "ok")
             u == [s EXCEPT !.refused = k.refused]
  <1> SUFFICES Local(u, m, p) /\ Alike(k, u)
    OBVIOUS
  <1> USE NetFieldsAre, CallFieldsAre DEF Alike, SameFlow
  <1>0. d.lastErr = k.lastErr
    BY DEF Local, IsNetconn
  <1> DEFINE x == IF k.lastErr = "fatal" THEN k.lastErr ELSE "ok"
  <1>s. s = [d EXCEPT !.lastErr = x]
    BY <1>0 DEF SafeErr
  <1>x. x \in Answers /\ (x = "fatal" <=> k.lastErr = "fatal")
    BY DEF Local, IsNetconn, Answers
  <1> HIDE DEF s, x
  <1>1. /\ Alike(k, u) /\ u.nonblocking = k.nonblocking /\ u.recvmbox = k.recvmbox
             /\ u.rx = k.rx
        /\ u.given = k.given /\ u.refused = k.refused /\ u.fin = k.fin /\ u.unread = k.unread
        /\ u.space = k.space /\ u.read = k.read /\ u.connecting = k.connecting
             /\ u.state = k.state
        /\ u.pcb = k.pcb /\ u.lastErr \in Answers
             /\ (u.lastErr = "fatal" <=> k.lastErr = "fatal")
        /\ u.current = k.current /\ u.sem = k.sem /\ u.offset = k.offset /\ u.boxes = k.boxes
        /\ DOMAIN u = NetFields
    BY <1>s, <1>x DEF u, Local, IsNetconn, d
  <1> HIDE DEF u
  <1>3. /\ IsNetconn(k) /\ IsCall(m) /\ Woken(k, m, p) /\ Busy(k, m) /\ Blocks(k, m)
        /\ Shape(k) /\ Made(k, m) /\ Sees(k, m) /\ Pieces(k, m, p) /\ Tells(k, m, p)
    BY DEF Local
  <1>4. IsNetconn(u) /\ IsCall(m)
    <2>1. IsNetconn(u)
      BY <1>1, <1>3 DEF IsNetconn, Answers
    <2>2. IsCall(m)
      BY <1>3 DEF IsCall, Answers
    <2> QED
      BY <2>1, <2>2
  <1>5. k.used /\ k.type = "TCP" /\ k.acceptmbox = <<>> /\ k.state # "LISTEN"
          /\ m.op # "newconn"
    BY <1>3 DEF Shape, Made, IsNetconn
  <1>6. Woken(u, m, p)
    BY <1>1, <1>3, <1>5 DEF IsNetconn, IsCall, Woken, Waits, Answers
  <1>7. Busy(u, m)
    BY <1>1, <1>3, <1>5 DEF IsNetconn, IsCall, Busy, KeepsMessage
  <1>8. Blocks(u, m)
    BY <1>1, <1>3, <1>5 DEF IsNetconn, IsCall, Blocks
  <1>9. Shape(u)
    BY <1>1, <1>3, <1>5 DEF IsNetconn, IsCall, Shape
  <1>10. Made(u, m)
    BY <1>1, <1>3, <1>5 DEF IsNetconn, IsCall, Made, Waits, Receives, Answers
  <1>11. Sees(u, m)
    BY <1>1, <1>3, <1>5 DEF IsNetconn, IsCall, Sees, Waits
  <1>12. Pieces(u, m, p)
    <2>1. PICK i \in Nat : InLine(k, m, p, i)
      BY <1>3, <1>5 DEF Pieces
    <2> DEFINE w == i
               h == HasUntold(m, p)
               b == Base(k, m)
    <2>2. Base(u, m) = b /\ b \in Nat /\ h \in Nat
      BY <1>1, <1>3, <1>5 DEF Base, Has, HasUntold, IsNetconn
    <2>w. w = i /\ w \in Nat
      OBVIOUS
    <2>a. /\ k.rx => k.given = b + i + HasRefused(k)
          /\ k.unread = i + h + HasRefused(k)
      BY <2>1 DEF InLine
    <2>b. k.refused \in Nat /\ k.given \in Nat /\ k.unread \in Int
      BY <1>3 DEF IsNetconn
    <2>4. /\ HasRefused(u) = IF u.refused = 0 THEN 0 ELSE 1
          /\ HasRefused(k) = IF k.refused = 0 THEN 0 ELSE 1
      BY DEF HasRefused
    <2>3. TRUE
      BY <2>1, <2>w, <1>3, <1>5 DEF InLine, IsNetconn, HasRefused
    <2> HIDE DEF w, h, b
    <2>5. /\ w \in 0 .. Len(u.recvmbox) /\ Run(u.recvmbox, b, w)
          /\ (u.fin \in {"no", "kept"} => w = Len(u.recvmbox))
          /\ (Receives(m) /\ m.got = 0 => w = 0)
      BY <2>1, <2>2, <2>3, <2>w, <1>1, <1>3, <1>5 DEF InLine, IsNetconn, b
    <2>6. u.rx => u.given = b + w + HasRefused(u)
      BY <2>2, <2>3, <2>4, <2>a, <2>b, <2>w, <1>1
    <2>8. u.unread = w + h + HasRefused(u)
      BY <2>2, <2>3, <2>4, <2>a, <2>b, <2>w, <1>1
    <2>7. /\ u.refused # 0 => u.refused = b + w + 1 /\ u.fin \in {"no", "kept"}
          /\ (u.fin = "kept" => u.refused # 0)
          /\ (u.fin \in {"no", "kept"} => (Receives(m) => m.got # 0))
          /\ (HasPiece(m) => m.got = u.read + 1)
      BY <2>1, <2>2, <2>3, <2>w, <1>1, <1>3, <1>5 DEF InLine, IsNetconn, b
    <2>9. InLine(u, m, p, w)
      BY <2>2, <2>5, <2>6, <2>7, <2>8 DEF InLine, h
    <2> QED
      BY <2>w, <2>9 DEF Pieces
  <1>13. Tells(u, m, p)
    BY <1>1, <1>3, <1>5 DEF IsNetconn, IsCall, Tells
  <1> QED
    BY <1>1, <1>4, <1>5, <1>6, <1>7, <1>8, <1>9,
       <1>10, <1>11, <1>12, <1>13 DEF Local, SameCall, Emptied, Owned, Kin

\* recv_tcp takes the refused piece.
LEMMA RefusedTaken ==
  ASSUME NEW k, NEW m, NEW p, Local(k, m, p), k.pcb = "open", k.rx, k.refused # 0,
           k.fin # "kept"
  PROVE  /\ Local([SafeErr([k EXCEPT !.refused = 0],
              "ok") EXCEPT !.recvmbox = Append(k.recvmbox, k.refused)], m, p)
         /\ Alike(k, [SafeErr([k EXCEPT !.refused = 0],
              "ok") EXCEPT !.recvmbox = Append(k.recvmbox, k.refused)])
  <1> DEFINE d == [k EXCEPT !.refused = 0]
             s == SafeErr(d, "ok")
             u == [s EXCEPT !.recvmbox = Append(k.recvmbox, k.refused)]
  <1> SUFFICES Local(u, m, p) /\ Alike(k, u)
    OBVIOUS
  <1> USE NetFieldsAre, CallFieldsAre DEF Alike, SameFlow
  <1>0. d.lastErr = k.lastErr
    BY DEF Local, IsNetconn
  <1> DEFINE x == IF k.lastErr = "fatal" THEN k.lastErr ELSE "ok"
  <1>s. s = [d EXCEPT !.lastErr = x]
    BY <1>0 DEF SafeErr
  <1>x. x \in Answers /\ (x = "fatal" <=> k.lastErr = "fatal")
    BY DEF Local, IsNetconn, Answers
  <1> HIDE DEF s, x
  <1>1. /\ Alike(k, u) /\ u.nonblocking = k.nonblocking
        /\ u.recvmbox = Append(k.recvmbox, k.refused) /\ u.rx = k.rx /\ u.given = k.given
        /\ u.refused = 0 /\ u.fin = k.fin /\ u.unread = k.unread /\ u.space = k.space
        /\ u.read = k.read /\ u.connecting = k.connecting /\ u.state = k.state /\ u.pcb = k.pcb
        /\ u.lastErr \in Answers /\ (u.lastErr = "fatal" <=> k.lastErr = "fatal")
        /\ u.current = k.current /\ u.sem = k.sem /\ u.offset = k.offset /\ u.boxes = k.boxes
        /\ DOMAIN u = NetFields
    BY <1>s, <1>x DEF u, Local, IsNetconn, d
  <1> HIDE DEF u
  <1>3. /\ IsNetconn(k) /\ IsCall(m) /\ Woken(k, m, p) /\ Busy(k, m) /\ Blocks(k, m)
        /\ Shape(k) /\ Made(k, m) /\ Sees(k, m) /\ Pieces(k, m, p) /\ Tells(k, m, p)
    BY DEF Local
  <1>4. IsNetconn(u) /\ IsCall(m)
    <2>1. IsNetconn(u)
      BY <1>1, <1>3 DEF IsNetconn, Answers
    <2>2. IsCall(m)
      BY <1>3 DEF IsCall, Answers
    <2> QED
      BY <2>1, <2>2
  <1>5. k.used /\ k.type = "TCP" /\ k.acceptmbox = <<>> /\ k.state # "LISTEN"
          /\ m.op # "newconn"
        /\ u.recvmbox # <<>>
    <2>1. k.used /\ k.type = "TCP" /\ k.acceptmbox = <<>> /\ k.state # "LISTEN"
            /\ m.op # "newconn"
      BY <1>3 DEF Shape, Made, IsNetconn
    <2>2. u.recvmbox # <<>>
      BY <1>1, <1>3, AppendIs, SMTT(30) DEF IsNetconn
    <2> QED
      BY <2>1, <2>2
  <1>6. Woken(u, m, p)
    BY <1>1, <1>3, <1>5 DEF IsNetconn, IsCall, Woken, Waits, Answers
  <1>7. Busy(u, m)
    BY <1>1, <1>3, <1>5 DEF IsNetconn, IsCall, Busy, KeepsMessage
  <1>8. Blocks(u, m)
    BY <1>1, <1>3, <1>5 DEF IsNetconn, IsCall, Blocks
  <1>9. Shape(u)
    BY <1>1, <1>3, <1>5 DEF IsNetconn, IsCall, Shape
  <1>10. Made(u, m)
    BY <1>1, <1>3, <1>5 DEF IsNetconn, IsCall, Made, Waits, Receives, Answers
  <1>11. Sees(u, m)
    BY <1>1, <1>3, <1>5 DEF IsNetconn, IsCall, Sees, Waits
  <1>12. Pieces(u, m, p)
    <2>1. PICK i \in Nat : InLine(k, m, p, i)
      BY <1>3, <1>5 DEF Pieces
    <2> DEFINE w == i + 1
               h == HasUntold(m, p)
               b == Base(k, m)
    <2>2. Base(u, m) = b /\ b \in Nat /\ h \in Nat
      BY <1>1, <1>3, <1>5, SMTT(30) DEF Base, Has, HasUntold, IsNetconn
    <2>w. w = i + 1 /\ w \in Nat
      OBVIOUS
    <2>a. /\ k.rx => k.given = b + i + HasRefused(k)
          /\ k.unread = i + h + HasRefused(k)
      BY <2>1 DEF InLine
    <2>b. k.refused \in Nat /\ k.given \in Nat /\ k.unread \in Int
      BY <1>3 DEF IsNetconn
    <2>4. /\ HasRefused(u) = IF u.refused = 0 THEN 0 ELSE 1
          /\ HasRefused(k) = IF k.refused = 0 THEN 0 ELSE 1
      BY DEF HasRefused
    <2>3. i = Len(k.recvmbox) /\ k.refused = b + i + 1
          /\ Len(Append(k.recvmbox, k.refused)) = i + 1
          /\ Run(Append(k.recvmbox, k.refused), b, w)
      BY <2>1, <2>w, <1>3, <1>5, <2>2, RunOn DEF InLine, IsNetconn, HasRefused
    <2> HIDE DEF w, h, b
    <2>5. /\ w \in 0 .. Len(u.recvmbox) /\ Run(u.recvmbox, b, w)
          /\ (u.fin \in {"no", "kept"} => w = Len(u.recvmbox))
          /\ (Receives(m) /\ m.got = 0 => w = 0)
      BY <2>1, <2>2, <2>3, <2>w, <1>1, <1>3, <1>5 DEF InLine, IsNetconn, b
    <2>6. u.rx => u.given = b + w + HasRefused(u)
      BY <2>2, <2>3, <2>4, <2>a, <2>b, <2>w, <1>1
    <2>8. u.unread = w + h + HasRefused(u)
      BY <2>2, <2>3, <2>4, <2>a, <2>b, <2>w, <1>1
    <2>7. /\ u.refused # 0 => u.refused = b + w + 1 /\ u.fin \in {"no", "kept"}
          /\ (u.fin = "kept" => u.refused # 0)
          /\ (u.fin \in {"no", "kept"} => (Receives(m) => m.got # 0))
          /\ (HasPiece(m) => m.got = u.read + 1)
      BY <2>1, <2>2, <2>3, <2>w, <1>1, <1>3, <1>5 DEF InLine, IsNetconn, b
    <2>9. InLine(u, m, p, w)
      BY <2>2, <2>5, <2>6, <2>7, <2>8 DEF InLine, h
    <2> QED
      BY <2>w, <2>9 DEF Pieces
  <1>13. Tells(u, m, p)
    BY <1>1, <1>3, <1>5 DEF IsNetconn, IsCall, Tells
  <1> QED
    BY <1>1, <1>4, <1>5, <1>6, <1>7, <1>8, <1>9,
       <1>10, <1>11, <1>12, <1>13 DEF Local, SameCall, Emptied, Owned, Kin

\* recv_tcp takes the refused piece, and the end is told.
LEMMA RefusedEnds ==
  ASSUME NEW k, NEW m, NEW p, Local(k, m, p), k.pcb = "open", k.rx, k.refused # 0,
           k.fin = "kept"
  PROVE  /\ Local([[SafeErr([k EXCEPT !.refused = 0],
              "ok") EXCEPT !.recvmbox = Append(k.recvmbox, k.refused)] EXCEPT !.fin = "told"],
                m, p)
         /\ Alike(k, [[SafeErr([k EXCEPT !.refused = 0],
              "ok") EXCEPT !.recvmbox = Append(k.recvmbox, k.refused)] EXCEPT !.fin = "told"])
  <1> DEFINE d == [k EXCEPT !.refused = 0]
             s == SafeErr(d, "ok")
             u == [[s EXCEPT !.recvmbox = Append(k.recvmbox, k.refused)] EXCEPT !.fin = "told"]
  <1> SUFFICES Local(u, m, p) /\ Alike(k, u)
    OBVIOUS
  <1> USE NetFieldsAre, CallFieldsAre DEF Alike, SameFlow
  <1>0. d.lastErr = k.lastErr
    BY DEF Local, IsNetconn
  <1> DEFINE x == IF k.lastErr = "fatal" THEN k.lastErr ELSE "ok"
  <1>s. s = [d EXCEPT !.lastErr = x]
    BY <1>0 DEF SafeErr
  <1>x. x \in Answers /\ (x = "fatal" <=> k.lastErr = "fatal")
    BY DEF Local, IsNetconn, Answers
  <1> HIDE DEF s, x
  <1>1. /\ Alike(k, u) /\ u.nonblocking = k.nonblocking
        /\ u.recvmbox = Append(k.recvmbox, k.refused) /\ u.rx = k.rx /\ u.given = k.given
        /\ u.refused = 0 /\ u.fin = "told" /\ u.unread = k.unread /\ u.space = k.space
        /\ u.read = k.read /\ u.connecting = k.connecting /\ u.state = k.state /\ u.pcb = k.pcb
        /\ u.lastErr \in Answers /\ (u.lastErr = "fatal" <=> k.lastErr = "fatal")
        /\ u.current = k.current /\ u.sem = k.sem /\ u.offset = k.offset /\ u.boxes = k.boxes
        /\ DOMAIN u = NetFields
    BY <1>s, <1>x DEF u, Local, IsNetconn, d
  <1> HIDE DEF u
  <1>3. /\ IsNetconn(k) /\ IsCall(m) /\ Woken(k, m, p) /\ Busy(k, m) /\ Blocks(k, m)
        /\ Shape(k) /\ Made(k, m) /\ Sees(k, m) /\ Pieces(k, m, p) /\ Tells(k, m, p)
    BY DEF Local
  <1>4. IsNetconn(u) /\ IsCall(m)
    <2>1. IsNetconn(u)
      BY <1>1, <1>3 DEF IsNetconn, Answers
    <2>2. IsCall(m)
      BY <1>3 DEF IsCall, Answers
    <2> QED
      BY <2>1, <2>2
  <1>5. k.used /\ k.type = "TCP" /\ k.acceptmbox = <<>> /\ k.state # "LISTEN"
          /\ m.op # "newconn"
        /\ u.recvmbox # <<>>
    <2>1. k.used /\ k.type = "TCP" /\ k.acceptmbox = <<>> /\ k.state # "LISTEN"
            /\ m.op # "newconn"
      BY <1>3 DEF Shape, Made, IsNetconn
    <2>2. u.recvmbox # <<>>
      BY <1>1, <1>3, AppendIs DEF IsNetconn
    <2> QED
      BY <2>1, <2>2
  <1>6. Woken(u, m, p)
    BY <1>1, <1>3, <1>5 DEF IsNetconn, IsCall, Woken, Waits, Answers
  <1>7. Busy(u, m)
    BY <1>1, <1>3, <1>5 DEF IsNetconn, IsCall, Busy, KeepsMessage
  <1>8. Blocks(u, m)
    BY <1>1, <1>3, <1>5 DEF IsNetconn, IsCall, Blocks
  <1>9. Shape(u)
    BY <1>1, <1>3, <1>5 DEF IsNetconn, IsCall, Shape
  <1>10. Made(u, m)
    BY <1>1, <1>3, <1>5 DEF IsNetconn, IsCall, Made, Waits, Receives, Answers
  <1>11. Sees(u, m)
    BY <1>1, <1>3, <1>5 DEF IsNetconn, IsCall, Sees, Waits
  <1>12. Pieces(u, m, p)
    <2>1. PICK i \in Nat : InLine(k, m, p, i)
      BY <1>3, <1>5 DEF Pieces
    <2> DEFINE w == i + 1
               h == HasUntold(m, p)
               b == Base(k, m)
    <2>2. Base(u, m) = b /\ b \in Nat /\ h \in Nat
      BY <1>1, <1>3, <1>5 DEF Base, Has, HasUntold, IsNetconn
    <2>w. w = i + 1 /\ w \in Nat
      OBVIOUS
    <2>a. /\ k.rx => k.given = b + i + HasRefused(k)
          /\ k.unread = i + h + HasRefused(k)
      BY <2>1 DEF InLine
    <2>b. k.refused \in Nat /\ k.given \in Nat /\ k.unread \in Int
      BY <1>3 DEF IsNetconn
    <2>4. /\ HasRefused(u) = IF u.refused = 0 THEN 0 ELSE 1
          /\ HasRefused(k) = IF k.refused = 0 THEN 0 ELSE 1
      BY DEF HasRefused
    <2>3. i = Len(k.recvmbox) /\ k.refused = b + i + 1
          /\ Len(Append(k.recvmbox, k.refused)) = i + 1
          /\ Run(Append(k.recvmbox, k.refused), b, w)
      BY <2>1, <2>w, <1>3, <1>5, <2>2, RunOn DEF InLine, IsNetconn, HasRefused
    <2> HIDE DEF w, h, b
    <2>5. /\ w \in 0 .. Len(u.recvmbox) /\ Run(u.recvmbox, b, w)
          /\ (u.fin \in {"no", "kept"} => w = Len(u.recvmbox))
          /\ (Receives(m) /\ m.got = 0 => w = 0)
      BY <2>1, <2>2, <2>3, <2>w, <1>1, <1>3, <1>5 DEF InLine, IsNetconn, b
    <2>6. u.rx => u.given = b + w + HasRefused(u)
      BY <2>2, <2>3, <2>4, <2>a, <2>b, <2>w, <1>1
    <2>8. u.unread = w + h + HasRefused(u)
      BY <2>2, <2>3, <2>4, <2>a, <2>b, <2>w, <1>1
    <2>7. /\ u.refused # 0 => u.refused = b + w + 1 /\ u.fin \in {"no", "kept"}
          /\ (u.fin = "kept" => u.refused # 0)
          /\ (u.fin \in {"no", "kept"} => (Receives(m) => m.got # 0))
          /\ (HasPiece(m) => m.got = u.read + 1)
      BY <2>1, <2>2, <2>3, <2>w, <1>1, <1>3, <1>5 DEF InLine, IsNetconn, b
    <2>9. InLine(u, m, p, w)
      BY <2>2, <2>5, <2>6, <2>7, <2>8 DEF InLine, h
    <2> QED
      BY <2>w, <2>9 DEF Pieces
  <1>13. Tells(u, m, p)
    BY <1>1, <1>3, <1>5 DEF IsNetconn, IsCall, Tells
  <1> QED
    BY <1>1, <1>4, <1>5, <1>6, <1>7, <1>8, <1>9,
       <1>10, <1>11, <1>12, <1>13 DEF Local, SameCall, Emptied, Owned, Kin

\* recv_udp
LEMMA DatagramKeeps ==
  ASSUME NEW k, NEW m, NEW p, Local(k, m, p), k.pcb = "udp"
  PROVE  /\ Local([k EXCEPT !.recvmbox = Append(k.recvmbox, 1)], m, p)
         /\ Alike(k, [k EXCEPT !.recvmbox = Append(k.recvmbox, 1)])
  <1> DEFINE u == [k EXCEPT !.recvmbox = Append(k.recvmbox, 1)]
  <1> SUFFICES Local(u, m, p) /\ Alike(k, u)
    OBVIOUS
  <1> USE NetFieldsAre, CallFieldsAre DEF Alike, SameFlow
  <1>1. /\ Alike(k, u) /\ u.nonblocking = k.nonblocking /\ u.recvmbox = Append(k.recvmbox, 1)
        /\ u.rx = k.rx /\ u.given = k.given /\ u.refused = k.refused /\ u.fin = k.fin
        /\ u.unread = k.unread /\ u.space = k.space /\ u.read = k.read
        /\ u.connecting = k.connecting /\ u.state = k.state /\ u.pcb = k.pcb
        /\ u.lastErr = k.lastErr /\ u.current = k.current /\ u.sem = k.sem
             /\ u.offset = k.offset
        /\ u.boxes = k.boxes /\ DOMAIN u = NetFields
    BY DEF Local, IsNetconn, u
  <1> HIDE DEF u
  <1>3. /\ IsNetconn(k) /\ IsCall(m) /\ Woken(k, m, p) /\ Busy(k, m) /\ Blocks(k, m)
        /\ Shape(k) /\ Made(k, m) /\ Sees(k, m) /\ Pieces(k, m, p) /\ Tells(k, m, p)
    BY DEF Local
  <1>4. IsNetconn(u) /\ IsCall(m)
    <2>1. IsNetconn(u)
      BY <1>1, <1>3 DEF IsNetconn, Answers
    <2>2. IsCall(m)
      BY <1>3 DEF IsCall, Answers
    <2> QED
      BY <2>1, <2>2
  <1>5. k.used /\ k.type = "UDP" /\ k.rx
    BY <1>3 DEF Shape, Made, IsNetconn
  <1>6. Woken(u, m, p)
    BY <1>1, <1>3, <1>5 DEF IsNetconn, IsCall, Woken, Waits, Answers
  <1>7. Busy(u, m)
    BY <1>1, <1>3, <1>5 DEF IsNetconn, IsCall, Busy, KeepsMessage
  <1>8. Blocks(u, m)
    BY <1>1, <1>3, <1>5 DEF IsNetconn, IsCall, Blocks
  <1>9. Shape(u)
    BY <1>1, <1>3, <1>5 DEF IsNetconn, IsCall, Shape
  <1>10. Made(u, m)
    BY <1>1, <1>3, <1>5 DEF IsNetconn, IsCall, Made, Waits, Receives, Answers
  <1>11. Sees(u, m)
    BY <1>1, <1>3, <1>5, SMTT(30) DEF IsNetconn, IsCall, Sees, Waits
  <1>12. Pieces(u, m, p)
    BY <1>1, <1>3, <1>5 DEF Pieces
  <1>13. Tells(u, m, p)
    BY <1>1, <1>3, <1>5 DEF IsNetconn, IsCall, Tells
  <1> QED
    BY <1>1, <1>4, <1>5, <1>6, <1>7, <1>8, <1>9,
       <1>10, <1>11, <1>12, <1>13 DEF Local, SameCall, Emptied, Owned, Kin

\* A call that is one message.
LEMMA AskKeeps ==
  ASSUME NEW k, NEW m, Local(k, m, FALSE), m = Resting, k.used,
         NEW w, IsCall(w), w.pc = "waits", w.op \notin {"newconn", "recv"},
         w.op = "write" => w.size > 0 /\ w.queued = 0
  PROVE  Local(k, w, TRUE) /\ Alike(k, k)
  <1> DEFINE u == k
             n == w
  <1> SUFFICES Local(u, n, TRUE) /\ Alike(k, u)
    OBVIOUS
  <1> USE NetFieldsAre, CallFieldsAre DEF Alike, SameFlow
  <1>1. /\ Alike(k, u) /\ u.nonblocking = k.nonblocking /\ SameFlow(k, u)
        /\ u.connecting = k.connecting /\ u.state = k.state /\ u.pcb = k.pcb
        /\ u.lastErr = k.lastErr /\ u.current = k.current /\ u.sem = k.sem
             /\ u.offset = k.offset
        /\ u.boxes = k.boxes /\ DOMAIN u = NetFields
    BY DEF Local, IsNetconn, u
  <1>2. /\ n.pc = w.pc /\ n.conn = w.conn /\ n.op = w.op /\ n.err = w.err /\ n.size = w.size
        /\ n.len = w.len /\ n.queued = w.queued /\ n.dontblock = w.dontblock /\ n.got = w.got
        /\ n.dontblock \in BOOLEAN /\ DOMAIN n = CallFields
    BY DEF Local, IsCall, n
  <1> HIDE DEF u, n
  <1>3. /\ IsNetconn(k) /\ IsCall(m) /\ Woken(k, m, FALSE) /\ Busy(k, m) /\ Blocks(k, m)
        /\ Shape(k) /\ Made(k, m) /\ Sees(k, m) /\ Pieces(k, m, FALSE) /\ Tells(k, m, FALSE)
    BY DEF Local
  <1>4. IsNetconn(u) /\ IsCall(n)
    <2>1. IsNetconn(u)
      BY <1>1, <1>3 DEF IsNetconn, Answers
    <2>2. IsCall(n)
      BY <1>2, <1>3 DEF IsCall, Answers
    <2> QED
      BY <2>1, <2>2
  <1>5. k.sem = 0 /\ k.current = Nobody /\ w.op # "newconn" /\ k.state # "WRITE"
        /\ m.op = "none" /\ m.got = 0 /\ ~Receives(m) /\ ~Receives(n)
    <2>1. k.sem = 0 /\ k.current = Nobody /\ k.state # "WRITE" /\ m.op = "none" /\ m.got = 0
      BY <1>3 DEF Woken, Waits, Resting, Busy, KeepsMessage
    <2>2. ~Receives(m) /\ ~Receives(n)
      BY <1>2, <2>1 DEF Receives
    <2>3. w.op # "newconn"
      BY <1>3 DEF IsNetconn
    <2> QED
      BY <2>1, <2>2, <2>3
  <1>6. Woken(u, n, TRUE)
    BY <1>1, <1>2, <1>3, <1>5 DEF IsNetconn, IsCall, Woken, Waits, Answers
  <1>7. Busy(u, n)
    BY <1>1, <1>2, <1>3, <1>5 DEF IsNetconn, IsCall, Busy, KeepsMessage
  <1>8. Blocks(u, n)
    BY <1>1, <1>2, <1>3, <1>5 DEF IsNetconn, IsCall, Blocks
  <1>9. Shape(u)
    BY <1>1, <1>2, <1>3, <1>5, SMTT(30) DEF IsNetconn, IsCall, Shape
  <1>10. Made(u, n)
    BY <1>1, <1>2, <1>3, <1>5 DEF IsNetconn, IsCall, Made, Waits, Receives, Answers
  <1>11. Sees(u, n)
    BY <1>1, <1>2, <1>3, <1>5 DEF IsNetconn, IsCall, Sees, Waits
  <1>12. Pieces(u, n, TRUE)
    <2>1. /\ HasUntold(n, TRUE) = 0 /\ HasUntold(m, FALSE) = 0 /\ HasRefused(u) = HasRefused(k)
          /\ ~HasPiece(n) /\ ~HasPiece(m) /\ Base(u, n) = Base(k, m)
      BY <1>1, <1>2, <1>3, <1>5 DEF HasUntold, Has, HasPiece, HasRefused, Base
    <2>2. ASSUME NEW i \in Nat, InLine(k, m, FALSE, i)
          PROVE  InLine(u, n, TRUE, i)
      BY <2>1, <2>2, <1>1, <1>2, <1>3, <1>5, SMTT(30) DEF InLine, HasUntold, HasRefused, HasPiece,
           Receives, Waits, IsNetconn, Woken
    <2> QED
      BY <2>2, <1>1, <1>2, <1>3, <1>5, ZenonT(40) DEF Pieces
  <1>13. Tells(u, n, TRUE)
    BY <1>1, <1>2, <1>3, <1>5 DEF IsNetconn, IsCall, Tells
  <1> QED
    BY <1>1, <1>2, <1>4, <1>5, <1>6, <1>7, <1>8, <1>9,
       <1>10, <1>11, <1>12, <1>13 DEF Local, SameCall, Emptied, Owned, Kin

\* netconn_recv_data and netconn_accept look at the netconn.
LEMMA LookKeeps ==
  ASSUME NEW k, NEW m, Local(k, m, FALSE), m = Resting, k.used,
         NEW w, IsCall(w), w.pc = "looked", w.op \in k.boxes, k.lastErr # "fatal"
  PROVE  Local(k, w, FALSE) /\ Alike(k, k)
  <1> DEFINE u == k
             n == w
  <1> SUFFICES Local(u, n, FALSE) /\ Alike(k, u)
    OBVIOUS
  <1> USE NetFieldsAre, CallFieldsAre DEF Alike, SameFlow
  <1>1. /\ Alike(k, u) /\ u.nonblocking = k.nonblocking /\ SameFlow(k, u)
        /\ u.connecting = k.connecting /\ u.state = k.state /\ u.pcb = k.pcb
        /\ u.lastErr = k.lastErr /\ u.current = k.current /\ u.sem = k.sem
             /\ u.offset = k.offset
        /\ u.boxes = k.boxes /\ DOMAIN u = NetFields
    BY DEF Local, IsNetconn, u
  <1>2. /\ n.pc = w.pc /\ n.conn = w.conn /\ n.op = w.op /\ n.err = w.err /\ n.size = w.size
        /\ n.len = w.len /\ n.queued = w.queued /\ n.dontblock = w.dontblock /\ n.got = w.got
        /\ n.dontblock \in BOOLEAN /\ DOMAIN n = CallFields
    BY DEF Local, IsCall, n
  <1> HIDE DEF u, n
  <1>3. /\ IsNetconn(k) /\ IsCall(m) /\ Woken(k, m, FALSE) /\ Busy(k, m) /\ Blocks(k, m)
        /\ Shape(k) /\ Made(k, m) /\ Sees(k, m) /\ Pieces(k, m, FALSE) /\ Tells(k, m, FALSE)
    BY DEF Local
  <1>4. IsNetconn(u) /\ IsCall(n)
    <2>1. IsNetconn(u)
      BY <1>1, <1>3 DEF IsNetconn, Answers
    <2>2. IsCall(n)
      BY <1>2, <1>3 DEF IsCall, Answers
    <2> QED
      BY <2>1, <2>2
  <1>5. k.sem = 0 /\ k.current = Nobody /\ w.op \in {"recv", "accept"} /\ k.state # "WRITE"
        /\ m.op = "none" /\ m.got = 0 /\ ~Receives(m) /\ ~Receives(n)
    <2>1. k.sem = 0 /\ k.current = Nobody /\ k.state # "WRITE" /\ m.op = "none" /\ m.got = 0
      BY <1>3 DEF Woken, Waits, Resting, Busy, KeepsMessage
    <2>2. ~Receives(m) /\ ~Receives(n)
      BY <1>2, <2>1 DEF Receives
    <2>3. w.op \in {"recv", "accept"}
      BY <1>3 DEF IsNetconn
    <2> QED
      BY <2>1, <2>2, <2>3
  <1>6. Woken(u, n, FALSE)
    BY <1>1, <1>2, <1>3, <1>5 DEF IsNetconn, IsCall, Woken, Waits, Answers
  <1>7. Busy(u, n)
    BY <1>1, <1>2, <1>3, <1>5 DEF IsNetconn, IsCall, Busy, KeepsMessage
  <1>8. Blocks(u, n)
    BY <1>1, <1>2, <1>3, <1>5 DEF IsNetconn, IsCall, Blocks
  <1>9. Shape(u)
    BY <1>1, <1>2, <1>3, <1>5, SMTT(30) DEF IsNetconn, IsCall, Shape
  <1>10. Made(u, n)
    BY <1>1, <1>2, <1>3, <1>5, SMTT(30) DEF IsNetconn, IsCall, Made, Waits, Receives, Answers
  <1>11. Sees(u, n)
    BY <1>1, <1>2, <1>3, <1>5 DEF IsNetconn, IsCall, Sees, Waits
  <1>12. Pieces(u, n, FALSE)
    <2>1. /\ HasUntold(n, FALSE) = 0 /\ HasUntold(m, FALSE) = 0 /\ HasRefused(u) = HasRefused(k)
          /\ ~HasPiece(n) /\ ~HasPiece(m) /\ Base(u, n) = Base(k, m)
      BY <1>1, <1>2, <1>3, <1>5 DEF HasUntold, Has, HasPiece, HasRefused, Base
    <2>2. ASSUME NEW i \in Nat, InLine(k, m, FALSE, i)
          PROVE  InLine(u, n, FALSE, i)
      BY <2>1, <2>2, <1>1, <1>2, <1>3, <1>5 DEF InLine, HasUntold, HasRefused, HasPiece,
           Receives, Waits, IsNetconn, Woken
    <2> QED
      BY <2>2, <1>1, <1>2, <1>3, <1>5, ZenonT(40) DEF Pieces
  <1>13. Tells(u, n, FALSE)
    BY <1>1, <1>2, <1>3, <1>5 DEF IsNetconn, IsCall, Tells
  <1> QED
    BY <1>1, <1>2, <1>4, <1>5, <1>6, <1>7, <1>8, <1>9,
       <1>10, <1>11, <1>12, <1>13 DEF Local, SameCall, Emptied, Owned, Kin

\* netconn_recv_data takes a datagram.
LEMMA FetchDatagram ==
  ASSUME NEW k, NEW m, Local(k, m, FALSE), m.pc = "looked", m.op = "recv", k.type = "UDP",
           k.recvmbox # <<>>
  PROVE  /\ Local([k EXCEPT !.recvmbox = Tail(k.recvmbox)], Resting, FALSE)
         /\ Alike(k, [k EXCEPT !.recvmbox = Tail(k.recvmbox)])
  <1> DEFINE u == [k EXCEPT !.recvmbox = Tail(k.recvmbox)]
             n == Resting
  <1> SUFFICES Local(u, n, FALSE) /\ Alike(k, u)
    OBVIOUS
  <1> USE NetFieldsAre, CallFieldsAre DEF Alike, SameFlow
  <1>1. /\ Alike(k, u) /\ u.nonblocking = k.nonblocking /\ u.recvmbox = Tail(k.recvmbox)
        /\ u.rx = k.rx /\ u.given = k.given /\ u.refused = k.refused /\ u.fin = k.fin
        /\ u.unread = k.unread /\ u.space = k.space /\ u.read = k.read
        /\ u.connecting = k.connecting /\ u.state = k.state /\ u.pcb = k.pcb
        /\ u.lastErr = k.lastErr /\ u.current = k.current /\ u.sem = k.sem
             /\ u.offset = k.offset
        /\ u.boxes = k.boxes /\ DOMAIN u = NetFields
    BY DEF Local, IsNetconn, u, Resting
  <1>2. /\ n.pc = "idle" /\ n.conn = Nobody /\ n.op = "none" /\ n.err = "unset" /\ n.size = 0
        /\ n.len = 0 /\ n.queued = 0 /\ n.dontblock = FALSE /\ n.got = 0
             /\ n.dontblock \in BOOLEAN
        /\ DOMAIN n = CallFields
    BY DEF Local, IsCall, n, Resting
  <1> HIDE DEF u, n
  <1>3. /\ IsNetconn(k) /\ IsCall(m) /\ Woken(k, m, FALSE) /\ Busy(k, m) /\ Blocks(k, m)
        /\ Shape(k) /\ Made(k, m) /\ Sees(k, m) /\ Pieces(k, m, FALSE) /\ Tells(k, m, FALSE)
    BY DEF Local
  <1>4. IsNetconn(u) /\ IsCall(n)
    <2>1. IsNetconn(u)
      BY <1>1, <1>3 DEF IsNetconn, Answers
    <2>2. IsCall(n)
      BY <1>2, <1>3 DEF IsCall, Answers
    <2> QED
      BY <2>1, <2>2
  <1>5. k.sem = 0 /\ k.current = Nobody /\ k.used /\ k.rx /\ k.pcb \in {"none", "udp"}
          /\ Tail(k.recvmbox) \in Seq(Nat)
    BY <1>3 DEF Woken, Waits, Made, Shape, IsNetconn
  <1>6. Woken(u, n, FALSE)
    BY <1>1, <1>2, <1>3, <1>5 DEF IsNetconn, IsCall, Woken, Waits, Answers
  <1>7. Busy(u, n)
    BY <1>1, <1>2, <1>3, <1>5 DEF IsNetconn, IsCall, Busy, KeepsMessage
  <1>8. Blocks(u, n)
    BY <1>1, <1>2, <1>3, <1>5 DEF IsNetconn, IsCall, Blocks
  <1>9. Shape(u)
    BY <1>1, <1>2, <1>3, <1>5, SMTT(30) DEF IsNetconn, IsCall, Shape
  <1>10. Made(u, n)
    BY <1>1, <1>2, <1>3, <1>5 DEF IsNetconn, IsCall, Made, Waits, Receives, Answers
  <1>11. Sees(u, n)
    BY <1>1, <1>2, <1>3, <1>5 DEF IsNetconn, IsCall, Sees, Waits
  <1>12. Pieces(u, n, FALSE)
    BY <1>1, <1>2, <1>3, <1>5 DEF Pieces
  <1>13. Tells(u, n, FALSE)
    BY <1>1, <1>2, <1>3, <1>5 DEF IsNetconn, IsCall, Tells
  <1> QED
    BY <1>1, <1>2, <1>4, <1>5, <1>6, <1>7, <1>8, <1>9,
       <1>10, <1>11, <1>12, <1>13 DEF Local, SameCall, Emptied, Owned, Kin

\* netconn_recv_data takes a piece of a connection, or the end.
LEMMA FetchKeeps ==
  ASSUME NEW k, NEW m, Local(k, m, FALSE), m.pc = "looked", m.op = "recv", k.type = "TCP",
           k.recvmbox # <<>>
  PROVE  /\ Local([k EXCEPT !.recvmbox = Tail(k.recvmbox)], [m EXCEPT !.pc = "taken",
              !.got = Head(k.recvmbox)], FALSE)
         /\ Alike(k, [k EXCEPT !.recvmbox = Tail(k.recvmbox)])
  <1> DEFINE u == [k EXCEPT !.recvmbox = Tail(k.recvmbox)]
             n == [m EXCEPT !.pc = "taken", !.got = Head(k.recvmbox)]
  <1> SUFFICES Local(u, n, FALSE) /\ Alike(k, u)
    OBVIOUS
  <1> USE NetFieldsAre, CallFieldsAre DEF Alike, SameFlow
  <1>1. /\ Alike(k, u) /\ u.nonblocking = k.nonblocking /\ u.recvmbox = Tail(k.recvmbox)
        /\ u.rx = k.rx /\ u.given = k.given /\ u.refused = k.refused /\ u.fin = k.fin
        /\ u.unread = k.unread /\ u.space = k.space /\ u.read = k.read
        /\ u.connecting = k.connecting /\ u.state = k.state /\ u.pcb = k.pcb
        /\ u.lastErr = k.lastErr /\ u.current = k.current /\ u.sem = k.sem
             /\ u.offset = k.offset
        /\ u.boxes = k.boxes /\ DOMAIN u = NetFields
    BY DEF Local, IsNetconn, u
  <1>2. /\ n.pc = "taken" /\ n.conn = m.conn /\ n.op = m.op /\ n.err = m.err /\ n.size = m.size
        /\ n.len = m.len /\ n.queued = m.queued /\ n.dontblock = m.dontblock
        /\ n.got = Head(k.recvmbox) /\ DOMAIN n = CallFields
    BY DEF Local, IsCall, n
  <1> HIDE DEF u, n
  <1>3. /\ IsNetconn(k) /\ IsCall(m) /\ Woken(k, m, FALSE) /\ Busy(k, m) /\ Blocks(k, m)
        /\ Shape(k) /\ Made(k, m) /\ Sees(k, m) /\ Pieces(k, m, FALSE) /\ Tells(k, m, FALSE)
    BY DEF Local
  <1>4. IsNetconn(u) /\ IsCall(n)
    <2>1. IsNetconn(u)
      BY <1>1, <1>3 DEF IsNetconn, Answers
    <2>2. IsCall(n)
      BY <1>2, <1>3, SMTT(30) DEF IsCall, Answers, IsNetconn
    <2> QED
      BY <2>1, <2>2
  <1>5. k.sem = 0 /\ k.current = Nobody /\ k.used /\ k.rx /\ k.pcb \in {"none", "open"}
        /\ Tail(k.recvmbox) \in Seq(Nat) /\ Head(k.recvmbox) \in Nat
    BY <1>3, SMTT(30) DEF Woken, Waits, Made, Shape, IsNetconn
  <1>6. Woken(u, n, FALSE)
    BY <1>1, <1>2, <1>3, <1>5 DEF IsNetconn, IsCall, Woken, Waits, Answers
  <1>7. Busy(u, n)
    BY <1>1, <1>2, <1>3, <1>5 DEF IsNetconn, IsCall, Busy, KeepsMessage
  <1>8. Blocks(u, n)
    BY <1>1, <1>2, <1>3, <1>5 DEF IsNetconn, IsCall, Blocks
  <1>9. Shape(u)
    <2>1. /\ Shape(k) /\ k.used /\ k.rx /\ u.used /\ u.rx
          /\ u.type = k.type /\ u.pcb = k.pcb /\ u.state = k.state /\ u.refused = k.refused
          /\ u.boxes = k.boxes /\ u.acceptmbox = k.acceptmbox /\ u.fin = k.fin
          /\ u.given = k.given /\ u.unread = k.unread
      BY <1>1, <1>3, <1>5
    <2> QED
      BY <2>1 DEF Shape
  <1>10. Made(u, n)
    BY <1>1, <1>2, <1>3, <1>5 DEF IsNetconn, IsCall, Made, Waits, Receives, Answers
  <1>11. Sees(u, n)
    BY <1>1, <1>2, <1>3, <1>5 DEF IsNetconn, IsCall, Sees, Waits
  <1>12. Pieces(u, n, FALSE)
    <2>1. PICK i \in Nat : InLine(k, m, FALSE, i)
      BY <1>3, <1>5 DEF Pieces
    <2>2. ~HasPiece(m) /\ Base(k, m) = k.read /\ k.read \in Nat /\ HasUntold(m, FALSE) = 0
      BY <1>3 DEF Base, Has, HasPiece, Receives, HasUntold, IsNetconn
    <2>3. HasRefused(u) = HasRefused(k) /\ HasRefused(k) \in {0, 1} /\ (k.refused # 0
            => HasRefused(k) = 1)
      BY <1>1, <1>2, <1>3, <1>5 DEF HasRefused
    <2>4. k.recvmbox \in Seq(Nat) /\ Run(k.recvmbox, k.read, i) /\ i \in 0 .. Len(k.recvmbox)
      BY <2>1, <2>2, <1>3 DEF InLine, IsNetconn
    <2>5. CASE i > 0
      <3> DEFINE j == i - 1
      <3>1. Head(k.recvmbox) = k.read + 1 /\ Run(Tail(k.recvmbox), k.read + 1, j)
              /\ j \in 0 .. Len(Tail(k.recvmbox))
        BY <2>2, <2>4, <2>5, RunOff
      <3>2. HasPiece(n) /\ Base(u, n) = k.read + 1 /\ HasUntold(n, FALSE) = 1 /\ j + 1 = i
              /\ j \in Nat
        BY <3>1, <2>2, <2>5, <1>1, <1>2, <1>3, <1>5 DEF Base, Has, HasPiece, Receives, HasUntold
      <3>3. Len(k.recvmbox) = Len(Tail(k.recvmbox)) + 1 /\ Len(Tail(k.recvmbox)) \in Nat
        BY <2>4
      <3> HIDE DEF j
      <3>7. /\ i \in Nat /\ HasRefused(k) \in Nat
            /\ k.rx /\ k.pcb = "open" => k.given = k.read + i + HasRefused(k)
            /\ k.pcb = "open" => k.unread = i + 0 + HasRefused(k)
            /\ k.refused # 0 => k.refused = k.read + i + 1
            /\ k.pcb = "open" /\ k.fin \in {"no", "kept"} => i = Len(k.recvmbox)
        BY <2>1, <2>2, <2>3 DEF InLine, HasUntold
      <3>0. i = j + 1 /\ j \in Nat /\ k.read \in Nat
        BY <2>2, <3>2
      <3>b. /\ u.refused = k.refused /\ u.given = k.given /\ u.unread = k.unread
            /\ k.rx /\ HasRefused(u) = HasRefused(k)
        BY <1>1, <1>5, <2>3
      <3>8. /\ k.pcb = "open" => u.given = k.read + 1 + j + HasRefused(u)
            /\ k.pcb = "open" => u.unread = j + 1 + HasRefused(u)
        BY <3>0, <3>7, <3>b
      <3>9. u.refused # 0 => u.refused = k.read + 1 + j + 1
        BY <3>0, <3>7, <3>b
      <3>4. k.pcb = "open" /\ u.fin \in {"no", "kept"} => j = Len(u.recvmbox)
        BY <3>2, <3>3, <3>7, <1>1
      <3>5. /\ HasPiece(n) /\ n.got = u.read + 1 /\ n.got # 0 /\ Run(u.recvmbox, Base(u, n),
                 j) /\ j \in 0 .. Len(u.recvmbox)
            /\ u.refused # 0 => u.fin \in {"no", "kept"}
            /\ u.fin = "kept" => u.refused # 0
        BY <3>1, <3>2, <2>1, <2>2, <1>1, <1>2, <1>3, <1>5, SMTT(30) DEF InLine, IsNetconn
      <3>6. InLine(u, n, FALSE, j)
        BY <3>2, <3>4, <3>5, <3>8, <3>9, <1>1, <1>2, <1>3, <1>5 DEF InLine, HasUntold
      <3> QED
        BY <3>2, <3>6 DEF Pieces
    <2>6. CASE i = 0
      <3>1. Head(k.recvmbox) = 0 /\ Run(Tail(k.recvmbox), k.read, 0) /\ Len(k.recvmbox) # 0
              /\ Len(Tail(k.recvmbox)) \in Nat
        BY <2>2, <2>4, <2>6, RunOff
      <3>2. ~HasPiece(n) /\ Base(u, n) = k.read /\ HasUntold(n, FALSE) = 0
        BY <3>1, <2>2, <1>1, <1>2, <1>3, <1>5 DEF Base, Has, HasPiece, Receives, HasUntold
      <3>3. InLine(u, n, FALSE, 0)
        BY <3>1, <3>2, <2>1, <2>2, <2>3, <2>6, <1>1, <1>2, <1>3, <1>5 DEF InLine, HasUntold,
             HasRefused, HasPiece,
           Receives, Waits, IsNetconn, Woken
      <3> QED
        BY <3>3 DEF Pieces
    <2>7. i > 0 \/ i = 0
      BY <2>1
    <2> QED
      BY <2>5, <2>6, <2>7
  <1>13. Tells(u, n, FALSE)
    BY <1>1, <1>2, <1>3, <1>5 DEF IsNetconn, IsCall, Tells
  <1> QED
    BY <1>1, <1>2, <1>4, <1>5, <1>6, <1>7, <1>8, <1>9,
       <1>10, <1>11, <1>12, <1>13 DEF Local, SameCall, Emptied, Owned, Kin

\* netconn_recv_data tells the stack what it has taken.
LEMMA TellKeeps ==
  ASSUME NEW k, NEW m, Local(k, m, FALSE), m.pc = "taken", m.op = "recv"
  PROVE  Local(k, [m EXCEPT !.pc = "waits", !.err = "unset"], TRUE) /\ Alike(k, k)
  <1> DEFINE u == k
             n == [m EXCEPT !.pc = "waits", !.err = "unset"]
  <1> SUFFICES Local(u, n, TRUE) /\ Alike(k, u)
    OBVIOUS
  <1> USE NetFieldsAre, CallFieldsAre DEF Alike, SameFlow
  <1>1. /\ Alike(k, u) /\ u.nonblocking = k.nonblocking /\ SameFlow(k, u)
        /\ u.connecting = k.connecting /\ u.state = k.state /\ u.pcb = k.pcb
        /\ u.lastErr = k.lastErr /\ u.current = k.current /\ u.sem = k.sem
             /\ u.offset = k.offset
        /\ u.boxes = k.boxes /\ DOMAIN u = NetFields
    BY DEF Local, IsNetconn, u
  <1>2. /\ n.pc = "waits" /\ n.conn = m.conn /\ n.op = m.op /\ n.err = "unset"
             /\ n.size = m.size
        /\ n.len = m.len /\ n.queued = m.queued /\ n.dontblock = m.dontblock /\ n.got = m.got
        /\ DOMAIN n = CallFields
    BY DEF Local, IsCall, n
  <1> HIDE DEF u, n
  <1>3. /\ IsNetconn(k) /\ IsCall(m) /\ Woken(k, m, FALSE) /\ Busy(k, m) /\ Blocks(k, m)
        /\ Shape(k) /\ Made(k, m) /\ Sees(k, m) /\ Pieces(k, m, FALSE) /\ Tells(k, m, FALSE)
    BY DEF Local
  <1>4. IsNetconn(u) /\ IsCall(n)
    <2>1. IsNetconn(u)
      BY <1>1, <1>3 DEF IsNetconn, Answers
    <2>2. IsCall(n)
      BY <1>2, <1>3 DEF IsCall, Answers
    <2> QED
      BY <2>1, <2>2
  <1>5. k.sem = 0 /\ k.current = Nobody /\ k.used
    BY <1>3 DEF Woken, Waits, Made
  <1>6. Woken(u, n, TRUE)
    BY <1>1, <1>2, <1>3, <1>5 DEF IsNetconn, IsCall, Woken, Waits, Answers
  <1>7. Busy(u, n)
    BY <1>1, <1>2, <1>3, <1>5 DEF IsNetconn, IsCall, Busy, KeepsMessage
  <1>8. Blocks(u, n)
    BY <1>1, <1>2, <1>3, <1>5 DEF IsNetconn, IsCall, Blocks
  <1>9. Shape(u)
    BY <1>1, <1>2, <1>3, <1>5, SMTT(30) DEF IsNetconn, IsCall, Shape
  <1>10. Made(u, n)
    BY <1>1, <1>2, <1>3, <1>5 DEF IsNetconn, IsCall, Made, Waits, Receives, Answers
  <1>11. Sees(u, n)
    BY <1>1, <1>2, <1>3, <1>5 DEF IsNetconn, IsCall, Sees, Waits
  <1>12. Pieces(u, n, TRUE)
    <2>1. /\ HasUntold(n, TRUE) = HasUntold(m, FALSE) /\ HasRefused(u) = HasRefused(k)
          /\ HasPiece(n) = HasPiece(m) /\ Receives(n) = Receives(m) /\ Base(u, n) = Base(k, m)
      BY <1>1, <1>2, <1>3, <1>5 DEF HasUntold, Has, HasPiece, HasRefused, Receives, Base, Waits
    <2>2. ASSUME NEW i \in Nat, InLine(k, m, FALSE, i)
          PROVE  InLine(u, n, TRUE, i)
      BY <2>1, <2>2, <1>1, <1>2, <1>3, <1>5 DEF InLine, HasUntold, HasRefused, HasPiece,
           Receives, Waits, IsNetconn, Woken
    <2> QED
      BY <2>2, <1>1, <1>2, <1>3, <1>5 DEF Pieces
  <1>13. Tells(u, n, TRUE)
    BY <1>1, <1>2, <1>3, <1>5 DEF IsNetconn, IsCall, Tells
  <1> QED
    BY <1>1, <1>2, <1>4, <1>5, <1>6, <1>7, <1>8, <1>9,
       <1>10, <1>11, <1>12, <1>13 DEF Local, SameCall, Emptied, Owned, Kin

\* A call returns, and the netconn keeps the error.
LEMMA ReturnKeeps ==
  ASSUME NEW k, NEW m, Local(k, m, FALSE), k.sem = 1, m.pc = "waits", m.op \notin {"newconn",
           "recv", "delete"}
  PROVE  /\ Local(SafeErr([k EXCEPT !.sem = k.sem - 1], m.err), Resting, FALSE)
         /\ Alike(k, SafeErr([k EXCEPT !.sem = k.sem - 1], m.err))
  <1> DEFINE d == [k EXCEPT !.sem = k.sem - 1]
             s == SafeErr(d, m.err)
             u == s
             n == Resting
  <1> SUFFICES Local(u, n, FALSE) /\ Alike(k, u)
    OBVIOUS
  <1> USE NetFieldsAre, CallFieldsAre DEF Alike, SameFlow
  <1>0. d.lastErr = k.lastErr
    BY DEF Local, IsNetconn
  <1> DEFINE x == IF k.lastErr = "fatal" THEN k.lastErr ELSE m.err
  <1>s. s = [d EXCEPT !.lastErr = x]
    BY <1>0 DEF SafeErr
  <1>x. x \in Answers /\ (k.lastErr = "fatal" => x = "fatal")
    BY DEF Local, IsNetconn, Woken, Answers
  <1> HIDE DEF s, x
  <1>1. /\ Alike(k, u) /\ u.nonblocking = k.nonblocking /\ SameFlow(k, u)
        /\ u.connecting = k.connecting /\ u.state = k.state /\ u.pcb = k.pcb
        /\ u.lastErr \in Answers /\ (k.lastErr = "fatal" => u.lastErr = "fatal")
        /\ u.current = k.current /\ u.sem = 0 /\ u.offset = k.offset /\ u.boxes = k.boxes
        /\ DOMAIN u = NetFields
    BY <1>s, <1>x DEF u, Resting, Local, IsNetconn, d
  <1>2. /\ n.pc = "idle" /\ n.conn = Nobody /\ n.op = "none" /\ n.err = "unset" /\ n.size = 0
        /\ n.len = 0 /\ n.queued = 0 /\ n.dontblock = FALSE /\ n.got = 0
             /\ n.dontblock \in BOOLEAN
        /\ DOMAIN n = CallFields
    BY DEF Local, IsCall, n, Resting, Local, IsNetconn, d
  <1> HIDE DEF u, n
  <1>3. /\ IsNetconn(k) /\ IsCall(m) /\ Woken(k, m, FALSE) /\ Busy(k, m) /\ Blocks(k, m)
        /\ Shape(k) /\ Made(k, m) /\ Sees(k, m) /\ Pieces(k, m, FALSE) /\ Tells(k, m, FALSE)
    BY DEF Local
  <1>4. IsNetconn(u) /\ IsCall(n)
    <2>1. IsNetconn(u)
      BY <1>1, <1>3 DEF IsNetconn, Answers
    <2>2. IsCall(n)
      BY <1>2, <1>3 DEF IsCall, Answers
    <2> QED
      BY <2>1, <2>2
  <1>5. k.current = Nobody /\ k.used /\ k.sem = 1 /\ m.err \in Answers
    BY <1>3 DEF Woken, Waits, Made
  <1>6. Woken(u, n, FALSE)
    BY <1>1, <1>2, <1>3, <1>5 DEF IsNetconn, IsCall, Woken, Waits, Answers
  <1>7. Busy(u, n)
    BY <1>1, <1>2, <1>3, <1>5 DEF IsNetconn, IsCall, Busy, KeepsMessage
  <1>8. Blocks(u, n)
    BY <1>1, <1>2, <1>3, <1>5 DEF IsNetconn, IsCall, Blocks
  <1>9. Shape(u)
    BY <1>1, <1>2, <1>3, <1>5, SMTT(30) DEF IsNetconn, IsCall, Shape
  <1>10. Made(u, n)
    BY <1>1, <1>2, <1>3, <1>5 DEF IsNetconn, IsCall, Made, Waits, Receives, Answers
  <1>11. Sees(u, n)
    BY <1>1, <1>2, <1>3, <1>5 DEF IsNetconn, IsCall, Sees, Waits
  <1>12. Pieces(u, n, FALSE)
    <2>1. /\ HasUntold(n, FALSE) = 0 /\ HasUntold(m, FALSE) = 0 /\ HasRefused(u) = HasRefused(k)
          /\ ~HasPiece(n) /\ ~Receives(n) /\ Has(n) = 0
      BY <1>1, <1>2, <1>3, <1>5 DEF HasUntold, Has, HasPiece, HasRefused, Receives
    <2>2. ASSUME NEW i \in Nat, InLine(k, m, FALSE, i)
          PROVE  InLine(u, n, FALSE, i)
      <3>1. Base(u, n) = Base(k, m)
        BY <2>1, <2>2, <1>1, <1>2, <1>3, <1>5 DEF Base, Has, InLine, HasPiece, Receives,
             IsNetconn
      <3> QED
        BY <2>1, <2>2, <3>1, <1>1, <1>2, <1>3, <1>5 DEF InLine, HasUntold, HasRefused, HasPiece,
           Receives, Waits, IsNetconn, Woken
    <2> QED
      BY <2>2, <1>1, <1>2, <1>3, <1>5 DEF Pieces
  <1>13. Tells(u, n, FALSE)
    BY <1>1, <1>2, <1>3, <1>5 DEF IsNetconn, IsCall, Tells
  <1> QED
    BY <1>1, <1>2, <1>4, <1>5, <1>6, <1>7, <1>8, <1>9,
       <1>10, <1>11, <1>12, <1>13 DEF Local, SameCall, Emptied, Owned, Kin

\* netconn_recv_data returns at the end.
LEMMA EndReturns ==
  ASSUME NEW k, NEW m, Local(k, m, FALSE), k.sem = 1, m.pc = "waits", m.op = "recv", m.got = 0
  PROVE  /\ Local(SafeErr([k EXCEPT !.sem = k.sem - 1], "fatal"), Resting, FALSE)
         /\ Alike(k, SafeErr([k EXCEPT !.sem = k.sem - 1], "fatal"))
  <1> DEFINE d == [k EXCEPT !.sem = k.sem - 1]
             s == SafeErr(d, "fatal")
             u == s
             n == Resting
  <1> SUFFICES Local(u, n, FALSE) /\ Alike(k, u)
    OBVIOUS
  <1> USE NetFieldsAre, CallFieldsAre DEF Alike, SameFlow
  <1>0. d.lastErr = k.lastErr
    BY DEF Local, IsNetconn
  <1> DEFINE x == IF k.lastErr = "fatal" THEN k.lastErr ELSE "fatal"
  <1>s. s = [d EXCEPT !.lastErr = x]
    BY <1>0 DEF SafeErr
  <1>x. x \in Answers /\ (k.lastErr = "fatal" => x = "fatal")
    BY DEF Local, IsNetconn, Woken, Answers
  <1> HIDE DEF s, x
  <1>1. /\ Alike(k, u) /\ u.nonblocking = k.nonblocking /\ SameFlow(k, u)
        /\ u.connecting = k.connecting /\ u.state = k.state /\ u.pcb = k.pcb
        /\ u.lastErr \in Answers /\ (k.lastErr = "fatal" => u.lastErr = "fatal")
        /\ u.current = k.current /\ u.sem = 0 /\ u.offset = k.offset /\ u.boxes = k.boxes
        /\ DOMAIN u = NetFields
    BY <1>s, <1>x DEF u, Resting, Local, IsNetconn, d
  <1>2. /\ n.pc = "idle" /\ n.conn = Nobody /\ n.op = "none" /\ n.err = "unset" /\ n.size = 0
        /\ n.len = 0 /\ n.queued = 0 /\ n.dontblock = FALSE /\ n.got = 0
             /\ n.dontblock \in BOOLEAN
        /\ DOMAIN n = CallFields
    BY DEF Local, IsCall, n, Resting, Local, IsNetconn, d
  <1> HIDE DEF u, n
  <1>3. /\ IsNetconn(k) /\ IsCall(m) /\ Woken(k, m, FALSE) /\ Busy(k, m) /\ Blocks(k, m)
        /\ Shape(k) /\ Made(k, m) /\ Sees(k, m) /\ Pieces(k, m, FALSE) /\ Tells(k, m, FALSE)
    BY DEF Local
  <1>4. IsNetconn(u) /\ IsCall(n)
    <2>1. IsNetconn(u)
      BY <1>1, <1>3 DEF IsNetconn, Answers
    <2>2. IsCall(n)
      BY <1>2, <1>3 DEF IsCall, Answers
    <2> QED
      BY <2>1, <2>2
  <1>5. k.current = Nobody /\ k.used /\ k.sem = 1 /\ m.err \in Answers
    BY <1>3 DEF Woken, Waits, Made
  <1>6. Woken(u, n, FALSE)
    BY <1>1, <1>2, <1>3, <1>5 DEF IsNetconn, IsCall, Woken, Waits, Answers
  <1>7. Busy(u, n)
    BY <1>1, <1>2, <1>3, <1>5 DEF IsNetconn, IsCall, Busy, KeepsMessage
  <1>8. Blocks(u, n)
    BY <1>1, <1>2, <1>3, <1>5 DEF IsNetconn, IsCall, Blocks
  <1>9. Shape(u)
    BY <1>1, <1>2, <1>3, <1>5, SMTT(30) DEF IsNetconn, IsCall, Shape
  <1>10. Made(u, n)
    BY <1>1, <1>2, <1>3, <1>5 DEF IsNetconn, IsCall, Made, Waits, Receives, Answers
  <1>11. Sees(u, n)
    BY <1>1, <1>2, <1>3, <1>5 DEF IsNetconn, IsCall, Sees, Waits
  <1>12. Pieces(u, n, FALSE)
    <2>1. /\ HasUntold(n, FALSE) = 0 /\ HasUntold(m, FALSE) = 0 /\ HasRefused(u) = HasRefused(k)
          /\ ~HasPiece(n) /\ ~Receives(n) /\ Has(n) = 0
      BY <1>1, <1>2, <1>3, <1>5 DEF HasUntold, Has, HasPiece, HasRefused, Receives
    <2>2. ASSUME NEW i \in Nat, InLine(k, m, FALSE, i)
          PROVE  InLine(u, n, FALSE, i)
      <3>1. Base(u, n) = Base(k, m)
        BY <2>1, <2>2, <1>1, <1>2, <1>3, <1>5 DEF Base, Has, InLine, HasPiece, Receives,
             IsNetconn
      <3> QED
        BY <2>1, <2>2, <3>1, <1>1, <1>2, <1>3, <1>5 DEF InLine, HasUntold, HasRefused, HasPiece,
           Receives, Waits, IsNetconn, Woken
    <2> QED
      BY <2>2, <1>1, <1>2, <1>3, <1>5 DEF Pieces
  <1>13. Tells(u, n, FALSE)
    BY <1>1, <1>2, <1>3, <1>5 DEF IsNetconn, IsCall, Tells
  <1> QED
    BY <1>1, <1>2, <1>4, <1>5, <1>6, <1>7, <1>8, <1>9,
       <1>10, <1>11, <1>12, <1>13 DEF Local, SameCall, Emptied, Owned, Kin

\* netconn_recv_data returns with a piece.
LEMMA PieceReturns ==
  ASSUME NEW k, NEW m, Local(k, m, FALSE), k.sem = 1, m.pc = "waits", m.op = "recv",
           m.got # 0, k.type = "TCP"
  PROVE  /\ Local([[k EXCEPT !.sem = k.sem - 1] EXCEPT !.read = m.got], Resting, FALSE)
         /\ Alike(k, [[k EXCEPT !.sem = k.sem - 1] EXCEPT !.read = m.got])
  <1> DEFINE u == [[k EXCEPT !.sem = k.sem - 1] EXCEPT !.read = m.got]
             n == Resting
  <1> SUFFICES Local(u, n, FALSE) /\ Alike(k, u)
    OBVIOUS
  <1> USE NetFieldsAre, CallFieldsAre DEF Alike, SameFlow
  <1>1. /\ Alike(k, u) /\ u.nonblocking = k.nonblocking /\ u.recvmbox = k.recvmbox
             /\ u.rx = k.rx
        /\ u.given = k.given /\ u.refused = k.refused /\ u.fin = k.fin /\ u.unread = k.unread
        /\ u.space = k.space /\ u.read = m.got /\ u.connecting = k.connecting
             /\ u.state = k.state
        /\ u.pcb = k.pcb /\ u.lastErr = k.lastErr /\ u.current = k.current /\ u.sem = 0
        /\ u.offset = k.offset /\ u.boxes = k.boxes /\ DOMAIN u = NetFields
    BY DEF Local, IsNetconn, u, Resting, IsCall
  <1>2. /\ n.pc = "idle" /\ n.conn = Nobody /\ n.op = "none" /\ n.err = "unset" /\ n.size = 0
        /\ n.len = 0 /\ n.queued = 0 /\ n.dontblock = FALSE /\ n.got = 0
             /\ n.dontblock \in BOOLEAN
        /\ DOMAIN n = CallFields
    BY DEF Local, IsCall, n, Resting, IsCall
  <1> HIDE DEF u, n
  <1>3. /\ IsNetconn(k) /\ IsCall(m) /\ Woken(k, m, FALSE) /\ Busy(k, m) /\ Blocks(k, m)
        /\ Shape(k) /\ Made(k, m) /\ Sees(k, m) /\ Pieces(k, m, FALSE) /\ Tells(k, m, FALSE)
    BY DEF Local
  <1>4. IsNetconn(u) /\ IsCall(n)
    <2>1. IsNetconn(u)
      BY <1>1, <1>3 DEF IsNetconn, Answers, IsCall
    <2>2. IsCall(n)
      BY <1>2, <1>3 DEF IsCall, Answers
    <2> QED
      BY <2>1, <2>2
  <1>5. k.current = Nobody /\ k.used /\ k.sem = 1 /\ m.err \in Answers
    BY <1>3 DEF Woken, Waits, Made
  <1>6. Woken(u, n, FALSE)
    BY <1>1, <1>2, <1>3, <1>5 DEF IsNetconn, IsCall, Woken, Waits, Answers
  <1>7. Busy(u, n)
    BY <1>1, <1>2, <1>3, <1>5 DEF IsNetconn, IsCall, Busy, KeepsMessage
  <1>8. Blocks(u, n)
    BY <1>1, <1>2, <1>3, <1>5 DEF IsNetconn, IsCall, Blocks
  <1>9. Shape(u)
    BY <1>1, <1>2, <1>3, <1>5, SMTT(30) DEF IsNetconn, IsCall, Shape
  <1>10. Made(u, n)
    BY <1>1, <1>2, <1>3, <1>5 DEF IsNetconn, IsCall, Made, Waits, Receives, Answers
  <1>11. Sees(u, n)
    BY <1>1, <1>2, <1>3, <1>5 DEF IsNetconn, IsCall, Sees, Waits
  <1>12. Pieces(u, n, FALSE)
    <2>1. /\ HasUntold(n, FALSE) = 0 /\ HasUntold(m, FALSE) = 0 /\ HasRefused(u) = HasRefused(k)
          /\ ~HasPiece(n) /\ ~Receives(n) /\ Has(n) = 0
      BY <1>1, <1>2, <1>3, <1>5 DEF HasUntold, Has, HasPiece, HasRefused, Receives
    <2>2. ASSUME NEW i \in Nat, InLine(k, m, FALSE, i)
          PROVE  InLine(u, n, FALSE, i)
      <3>1. Base(u, n) = Base(k, m)
        BY <2>1, <2>2, <1>1, <1>2, <1>3, <1>5 DEF Base, Has, InLine, HasPiece, Receives,
             IsNetconn
      <3> QED
        BY <2>1, <2>2, <3>1, <1>1, <1>2, <1>3, <1>5 DEF InLine, HasUntold, HasRefused, HasPiece,
           Receives, Waits, IsNetconn, Woken
    <2> QED
      BY <2>2, <1>1, <1>2, <1>3, <1>5 DEF Pieces
  <1>13. Tells(u, n, FALSE)
    BY <1>1, <1>2, <1>3, <1>5 DEF IsNetconn, IsCall, Tells
  <1> QED
    BY <1>1, <1>2, <1>4, <1>5, <1>6, <1>7, <1>8, <1>9,
       <1>10, <1>11, <1>12, <1>13 DEF Local, SameCall, Emptied, Owned, Kin

\* netconn_new returns with a netconn.
LEMMA NewReturns ==
  ASSUME NEW k, NEW m, Local(k, m, FALSE), k.sem = 1, m.pc = "waits", m.op = "newconn",
           m.err = "ok"
  PROVE  /\ Local([k EXCEPT !.sem = k.sem - 1], Resting, FALSE)
         /\ Alike(k, [k EXCEPT !.sem = k.sem - 1])
  <1> DEFINE u == [k EXCEPT !.sem = k.sem - 1]
             n == Resting
  <1> SUFFICES Local(u, n, FALSE) /\ Alike(k, u)
    OBVIOUS
  <1> USE NetFieldsAre, CallFieldsAre DEF Alike, SameFlow
  <1>1. /\ Alike(k, u) /\ u.nonblocking = k.nonblocking /\ SameFlow(k, u)
        /\ u.connecting = k.connecting /\ u.state = k.state /\ u.pcb = k.pcb
        /\ u.lastErr = k.lastErr /\ u.current = k.current /\ u.sem = 0 /\ u.offset = k.offset
        /\ u.boxes = k.boxes /\ DOMAIN u = NetFields
    BY DEF Local, IsNetconn, u, Resting
  <1>2. /\ n.pc = "idle" /\ n.conn = Nobody /\ n.op = "none" /\ n.err = "unset" /\ n.size = 0
        /\ n.len = 0 /\ n.queued = 0 /\ n.dontblock = FALSE /\ n.got = 0
             /\ n.dontblock \in BOOLEAN
        /\ DOMAIN n = CallFields
    BY DEF Local, IsCall, n, Resting
  <1> HIDE DEF u, n
  <1>3. /\ IsNetconn(k) /\ IsCall(m) /\ Woken(k, m, FALSE) /\ Busy(k, m) /\ Blocks(k, m)
        /\ Shape(k) /\ Made(k, m) /\ Sees(k, m) /\ Pieces(k, m, FALSE) /\ Tells(k, m, FALSE)
    BY DEF Local
  <1>4. IsNetconn(u) /\ IsCall(n)
    <2>1. IsNetconn(u)
      BY <1>1, <1>3 DEF IsNetconn, Answers
    <2>2. IsCall(n)
      BY <1>2, <1>3 DEF IsCall, Answers
    <2> QED
      BY <2>1, <2>2
  <1>5. k.current = Nobody /\ k.used /\ k.sem = 1 /\ m.err \in Answers
    BY <1>3 DEF Woken, Waits, Made
  <1>6. Woken(u, n, FALSE)
    BY <1>1, <1>2, <1>3, <1>5 DEF IsNetconn, IsCall, Woken, Waits, Answers
  <1>7. Busy(u, n)
    BY <1>1, <1>2, <1>3, <1>5 DEF IsNetconn, IsCall, Busy, KeepsMessage
  <1>8. Blocks(u, n)
    BY <1>1, <1>2, <1>3, <1>5 DEF IsNetconn, IsCall, Blocks
  <1>9. Shape(u)
    BY <1>1, <1>2, <1>3, <1>5, SMTT(30) DEF IsNetconn, IsCall, Shape
  <1>10. Made(u, n)
    BY <1>1, <1>2, <1>3, <1>5 DEF IsNetconn, IsCall, Made, Waits, Receives, Answers
  <1>11. Sees(u, n)
    BY <1>1, <1>2, <1>3, <1>5 DEF IsNetconn, IsCall, Sees, Waits
  <1>12. Pieces(u, n, FALSE)
    <2>1. /\ HasUntold(n, FALSE) = 0 /\ HasUntold(m, FALSE) = 0 /\ HasRefused(u) = HasRefused(k)
          /\ ~HasPiece(n) /\ ~Receives(n) /\ Has(n) = 0
      BY <1>1, <1>2, <1>3, <1>5 DEF HasUntold, Has, HasPiece, HasRefused, Receives
    <2>2. ASSUME NEW i \in Nat, InLine(k, m, FALSE, i)
          PROVE  InLine(u, n, FALSE, i)
      <3>1. Base(u, n) = Base(k, m)
        BY <2>1, <2>2, <1>1, <1>2, <1>3, <1>5 DEF Base, Has, InLine, HasPiece, Receives,
             IsNetconn
      <3> QED
        BY <2>1, <2>2, <3>1, <1>1, <1>2, <1>3, <1>5 DEF InLine, HasUntold, HasRefused, HasPiece,
           Receives, Waits, IsNetconn, Woken
    <2> QED
      BY <2>2, <1>1, <1>2, <1>3, <1>5 DEF Pieces
  <1>13. Tells(u, n, FALSE)
    BY <1>1, <1>2, <1>3, <1>5 DEF IsNetconn, IsCall, Tells
  <1> QED
    BY <1>1, <1>2, <1>4, <1>5, <1>6, <1>7, <1>8, <1>9,
       <1>10, <1>11, <1>12, <1>13 DEF Local, SameCall, Emptied, Owned, Kin

\* accept_function: the listener has one more connection.
LEMMA BoxKeeps ==
  ASSUME NEW k, NEW m, NEW p, Local(k, m, p), k.pcb = "listen", NEW q \in Seq(Conns)
  PROVE  Local([k EXCEPT !.acceptmbox = q], m, p) /\ Owned(k, [k EXCEPT !.acceptmbox = q])
  <1> DEFINE u == [k EXCEPT !.acceptmbox = q]
  <1> SUFFICES Local(u, m, p) /\ Owned(k, u)
    OBVIOUS
  <1> USE NetFieldsAre, CallFieldsAre DEF Alike, SameFlow
  <1>1. /\ u.used = k.used /\ u.owner = k.owner /\ u.type = k.type
             /\ u.nonblocking = k.nonblocking
        /\ u.acceptmbox = q /\ SameFlow(k, u) /\ u.connecting = k.connecting
             /\ u.state = k.state
        /\ u.pcb = k.pcb /\ u.lastErr = k.lastErr /\ u.current = k.current /\ u.sem = k.sem
        /\ u.offset = k.offset /\ u.boxes = k.boxes /\ DOMAIN u = NetFields
    BY DEF Local, IsNetconn, u
  <1> HIDE DEF u
  <1>3. /\ IsNetconn(k) /\ IsCall(m) /\ Woken(k, m, p) /\ Busy(k, m) /\ Blocks(k, m)
        /\ Shape(k) /\ Made(k, m) /\ Sees(k, m) /\ Pieces(k, m, p) /\ Tells(k, m, p)
    BY DEF Local
  <1>4. IsNetconn(u) /\ IsCall(m)
    <2>1. IsNetconn(u)
      BY <1>1, <1>3 DEF IsNetconn, Answers
    <2>2. IsCall(m)
      BY <1>3 DEF IsCall, Answers
    <2> QED
      BY <2>1, <2>2
  <1>5. k.used /\ k.state = "LISTEN"
    BY <1>3 DEF Shape
  <1>6. Woken(u, m, p)
    BY <1>1, <1>3, <1>5 DEF IsNetconn, IsCall, Woken, Waits, Answers
  <1>7. Busy(u, m)
    BY <1>1, <1>3, <1>5 DEF IsNetconn, IsCall, Busy, KeepsMessage
  <1>8. Blocks(u, m)
    BY <1>1, <1>3, <1>5 DEF IsNetconn, IsCall, Blocks
  <1>9. Shape(u)
    BY <1>1, <1>3, <1>5 DEF IsNetconn, IsCall, Shape
  <1>10. Made(u, m)
    BY <1>1, <1>3, <1>5 DEF IsNetconn, IsCall, Made, Waits, Receives, Answers
  <1>11. Sees(u, m)
    BY <1>1, <1>3, <1>5 DEF IsNetconn, IsCall, Sees, Waits
  <1>12. Pieces(u, m, p)
    BY <1>1, <1>3, <1>5 DEF Pieces, InLine, Base, Has, HasUntold, HasRefused,
          HasPiece, Receives, Waits, IsNetconn, Woken
  <1>13. Tells(u, m, p)
    BY <1>1, <1>3, <1>5 DEF IsNetconn, IsCall, Tells
  <1> QED
    BY <1>1, <1>4, <1>5, <1>6, <1>7, <1>8, <1>9,
       <1>10, <1>11, <1>12, <1>13 DEF Local, SameCall, Emptied, Owned, Kin

\* netconn_accept takes a connection.
LEMMA AcceptKeeps ==
  ASSUME NEW k, NEW m, Local(k, m, FALSE), m.pc = "looked", m.op = "accept",
           NEW q \in Seq(Conns)
  PROVE  /\ Local([k EXCEPT !.acceptmbox = q], Resting, FALSE)
         /\ Owned(k, [k EXCEPT !.acceptmbox = q])
  <1> DEFINE u == [k EXCEPT !.acceptmbox = q]
             n == Resting
  <1> SUFFICES Local(u, n, FALSE) /\ Owned(k, u)
    OBVIOUS
  <1> USE NetFieldsAre, CallFieldsAre DEF Alike, SameFlow
  <1>1. /\ u.used = k.used /\ u.owner = k.owner /\ u.type = k.type
             /\ u.nonblocking = k.nonblocking
        /\ u.acceptmbox = q /\ SameFlow(k, u) /\ u.connecting = k.connecting
             /\ u.state = k.state
        /\ u.pcb = k.pcb /\ u.lastErr = k.lastErr /\ u.current = k.current /\ u.sem = k.sem
        /\ u.offset = k.offset /\ u.boxes = k.boxes /\ DOMAIN u = NetFields
    BY DEF Local, IsNetconn, u, Resting
  <1>2. /\ n.pc = "idle" /\ n.conn = Nobody /\ n.op = "none" /\ n.err = "unset" /\ n.size = 0
        /\ n.len = 0 /\ n.queued = 0 /\ n.dontblock = FALSE /\ n.got = 0
             /\ n.dontblock \in BOOLEAN
        /\ DOMAIN n = CallFields
    BY DEF Local, IsCall, n, Resting
  <1> HIDE DEF u, n
  <1>3. /\ IsNetconn(k) /\ IsCall(m) /\ Woken(k, m, FALSE) /\ Busy(k, m) /\ Blocks(k, m)
        /\ Shape(k) /\ Made(k, m) /\ Sees(k, m) /\ Pieces(k, m, FALSE) /\ Tells(k, m, FALSE)
    BY DEF Local
  <1>4. IsNetconn(u) /\ IsCall(n)
    <2>1. IsNetconn(u)
      BY <1>1, <1>3 DEF IsNetconn, Answers
    <2>2. IsCall(n)
      BY <1>2, <1>3 DEF IsCall, Answers
    <2> QED
      BY <2>1, <2>2
  <1>5. k.used /\ k.state = "LISTEN" /\ k.pcb = "listen" /\ k.current = Nobody /\ k.sem = 0
    BY <1>3 DEF Shape, Sees, Woken, Waits, Made, IsNetconn
  <1>6. Woken(u, n, FALSE)
    BY <1>1, <1>2, <1>3, <1>5 DEF IsNetconn, IsCall, Woken, Waits, Answers
  <1>7. Busy(u, n)
    BY <1>1, <1>2, <1>3, <1>5 DEF IsNetconn, IsCall, Busy, KeepsMessage
  <1>8. Blocks(u, n)
    BY <1>1, <1>2, <1>3, <1>5 DEF IsNetconn, IsCall, Blocks
  <1>9. Shape(u)
    BY <1>1, <1>2, <1>3, <1>5 DEF IsNetconn, IsCall, Shape
  <1>10. Made(u, n)
    BY <1>1, <1>2, <1>3, <1>5 DEF IsNetconn, IsCall, Made, Waits, Receives, Answers
  <1>11. Sees(u, n)
    BY <1>1, <1>2, <1>3, <1>5 DEF IsNetconn, IsCall, Sees, Waits
  <1>12. Pieces(u, n, FALSE)
    <2>1. /\ HasUntold(n, FALSE) = 0 /\ HasUntold(m, FALSE) = 0 /\ HasRefused(u) = HasRefused(k)
          /\ ~HasPiece(n) /\ ~Receives(n) /\ Has(n) = 0
      BY <1>1, <1>2, <1>3, <1>5 DEF HasUntold, Has, HasPiece, HasRefused, Receives
    <2>2. ASSUME NEW i \in Nat, InLine(k, m, FALSE, i)
          PROVE  InLine(u, n, FALSE, i)
      <3>1. Base(u, n) = Base(k, m)
        BY <2>1, <2>2, <1>1, <1>2, <1>3, <1>5 DEF Base, Has, InLine, HasPiece, Receives,
             IsNetconn
      <3> QED
        BY <2>1, <2>2, <3>1, <1>1, <1>2, <1>3, <1>5 DEF InLine, HasUntold, HasRefused, HasPiece,
           Receives, Waits, IsNetconn, Woken
    <2> QED
      BY <2>2, <1>1, <1>2, <1>3, <1>5, ZenonT(40) DEF Pieces
  <1>13. Tells(u, n, FALSE)
    BY <1>1, <1>2, <1>3, <1>5 DEF IsNetconn, IsCall, Tells
  <1> QED
    BY <1>1, <1>2, <1>4, <1>5, <1>6, <1>7, <1>8, <1>9,
       <1>10, <1>11, <1>12, <1>13 DEF Local, SameCall, Emptied, Owned, Kin

\* netconn_accept: the connection has an owner.
LEMMA OwnerKeeps ==
  ASSUME NEW k, NEW m, Local(k, m, FALSE), m = Resting, k.owner = Nobody, k.used,
           NEW t \in Threads
  PROVE  Local([k EXCEPT !.owner = t], m, FALSE) /\ Kin(k, [k EXCEPT !.owner = t])
  <1> DEFINE u == [k EXCEPT !.owner = t]
  <1> SUFFICES Local(u, m, FALSE) /\ Kin(k, u)
    OBVIOUS
  <1> USE NetFieldsAre, CallFieldsAre DEF Alike, SameFlow
  <1>1. /\ u.used = k.used /\ u.owner = t /\ u.type = k.type /\ u.nonblocking = k.nonblocking
        /\ u.acceptmbox = k.acceptmbox /\ SameFlow(k, u) /\ u.connecting = k.connecting
        /\ u.state = k.state /\ u.pcb = k.pcb /\ u.lastErr = k.lastErr /\ u.current = k.current
        /\ u.sem = k.sem /\ u.offset = k.offset /\ u.boxes = k.boxes /\ DOMAIN u = NetFields
    BY DEF Local, IsNetconn, u
  <1> HIDE DEF u
  <1>3. /\ IsNetconn(k) /\ IsCall(m) /\ Woken(k, m, FALSE) /\ Busy(k, m) /\ Blocks(k, m)
        /\ Shape(k) /\ Made(k, m) /\ Sees(k, m) /\ Pieces(k, m, FALSE) /\ Tells(k, m, FALSE)
    BY DEF Local
  <1>4. IsNetconn(u) /\ IsCall(m)
    <2>1. IsNetconn(u)
      BY <1>1, <1>3 DEF IsNetconn, Answers
    <2>2. IsCall(m)
      BY <1>3 DEF IsCall, Answers
    <2> QED
      BY <2>1, <2>2
  <1>5. k.current = Nobody /\ k.sem = 0 /\ m.op = "none" /\ m.pc = "idle"
    BY <1>3 DEF Woken, Waits, Resting
  <1>6. Woken(u, m, FALSE)
    BY <1>1, <1>3, <1>5 DEF IsNetconn, IsCall, Woken, Waits, Answers
  <1>7. Busy(u, m)
    BY <1>1, <1>3, <1>5 DEF IsNetconn, IsCall, Busy, KeepsMessage
  <1>8. Blocks(u, m)
    BY <1>1, <1>3, <1>5 DEF IsNetconn, IsCall, Blocks
  <1>9. Shape(u)
    BY <1>1, <1>3, <1>5 DEF IsNetconn, IsCall, Shape
  <1>10. Made(u, m)
    BY <1>1, <1>3, <1>5 DEF IsNetconn, IsCall, Made, Waits, Receives, Answers
  <1>11. Sees(u, m)
    BY <1>1, <1>3, <1>5 DEF IsNetconn, IsCall, Sees, Waits
  <1>12. Pieces(u, m, FALSE)
    <2>1. /\ u.type = k.type /\ u.pcb = k.pcb /\ u.rx = k.rx /\ u.recvmbox = k.recvmbox
          /\ u.refused = k.refused /\ u.fin = k.fin /\ u.given = k.given
          /\ u.unread = k.unread /\ u.read = k.read
      BY <1>1
    <2>2. Base(u, m) = Base(k, m) /\ HasRefused(u) = HasRefused(k)
      BY <2>1 DEF Base, HasRefused
    <2>3. ASSUME NEW i \in Nat, InLine(k, m, FALSE, i)
          PROVE  InLine(u, m, FALSE, i)
      BY <2>1, <2>2, <2>3 DEF InLine
    <2> QED
      BY <2>1, <2>3, <1>3 DEF Pieces
  <1>13. Tells(u, m, FALSE)
    BY <1>1, <1>3, <1>5 DEF IsNetconn, IsCall, Tells
  <1> QED
    BY <1>1, <1>4, <1>5, <1>6, <1>7, <1>8, <1>9,
       <1>10, <1>11, <1>12, <1>13 DEF Local, SameCall, Emptied, Owned, Kin

-----------------------------------------------------------------------------
(* All netconns, threads and messages *)

\* The call of a netconn's owner, and whether its message is posted.
Mine(C, D, c) ==
    IF C[c].owner # Nobody /\ D[C[c].owner].conn = c THEN D[C[c].owner] ELSE Resting
IsPosted(C, D, M, c) == Waits(Mine(C, D, c)) /\ Holds(M, C[c].owner)

\* Nothing is twice in a mailbox.
Once(q) == \A i, j \in 1 .. Len(q) : q[i] = q[j] => i = j

\* A thread in a call is in one of its own netconn.
CallOK(C, t, m) ==
    /\ m.pc = "idle" => m = Resting
    /\ m.pc # "idle" => /\ m.conn \in Conns /\ C[m.conn].used /\ C[m.conn].owner = t
                        /\ (m.pc = "looked" => m.op \in {"recv", "accept"})
                        /\ (m.pc = "taken" => m.op = "recv")
                        /\ (m.pc = "waits" => m.op \in Ops)
                        /\ (m.op = "recv" /\ m.pc # "looked" => C[m.conn].type = "TCP")
                        /\ (m.op = "write" => C[m.conn].type = "TCP")

\* The mailbox of the stack: who is in it waits.
Mailed(D, M) ==
    M \in Seq(Threads) /\ Once(M) /\ \A t \in Threads : Holds(M, t) => Waits(D[t])

\* A netconn in an acceptmbox is in no other and nobody owns it.
Unaccepted(C) ==
    \A c \in Conns :
        /\ Once(C[c].acceptmbox)
        /\ \A d \in Conns : Holds(C[c].acceptmbox, d) =>
              /\ d # c /\ C[d].used /\ C[d].owner = Nobody
              /\ \A e \in Conns : Holds(C[e].acceptmbox, d) => e = c

\* The invariant, of netconns C, calls D and mailbox M.
Sane(C, D, M) ==
    /\ C = [c \in Conns |-> C[c]] /\ D = [t \in Threads |-> D[t]]
    /\ \A t \in Threads : CallOK(C, t, D[t])
    /\ Mailed(D, M) /\ Unaccepted(C)
    /\ \A c \in Conns : Local(C[c], Mine(C, D, c), IsPosted(C, D, M, c))

\* The first message is taken: it was there once.
LEMMA MailTaken ==
  ASSUME NEW S, NEW q \in Seq(S), q # <<>>, Once(q)
  PROVE  /\ Head(q) \in S /\ Holds(q, Head(q)) /\ Tail(q) \in Seq(S) /\ Once(Tail(q))
         /\ ~Holds(Tail(q), Head(q))
         /\ \A x : x # Head(q) => (Holds(Tail(q), x) <=> Holds(q, x))
  <1>1. /\ Tail(q) \in Seq(S) /\ Head(q) \in S /\ Head(q) = q[1] /\ Len(q) \in Nat \ {0}
        /\ Len(Tail(q)) = Len(q) - 1
        /\ \A i \in 1 .. Len(q) - 1 : Tail(q)[i] = q[i + 1]
    OBVIOUS
  <1>2. Once(Tail(q)) /\ ~Holds(Tail(q), Head(q))
    BY <1>1 DEF Once, Holds
  <1>3. Holds(q, Head(q))
    BY <1>1 DEF Holds
  <1>4. ASSUME NEW x, x # Head(q), Holds(Tail(q), x)
        PROVE  Holds(q, x)
    BY <1>1, <1>4 DEF Holds
  <1>5. ASSUME NEW x, x # Head(q), Holds(q, x)
        PROVE  Holds(Tail(q), x)
    <2>1. PICK i \in 1 .. Len(q) : q[i] = x
      BY <1>5 DEF Holds
    <2>2. i # 1 /\ i - 1 \in 1 .. Len(Tail(q)) /\ Tail(q)[i - 1] = x
      BY <1>1, <1>5, <2>1
    <2> QED
      BY <2>2 DEF Holds
  <1> QED
    BY <1>1, <1>2, <1>3, <1>4, <1>5

\* A message that was not there is put.
LEMMA MailPut ==
  ASSUME NEW S, NEW q \in Seq(S), NEW y \in S, Once(q), ~Holds(q, y)
  PROVE  /\ Append(q, y) \in Seq(S) /\ Once(Append(q, y)) /\ Holds(Append(q, y), y)
         /\ \A x : x # y => (Holds(Append(q, y), x) <=> Holds(q, x))
  <1>1. /\ Append(q, y) \in Seq(S) /\ Len(Append(q, y)) = Len(q) + 1 /\ Len(q) \in Nat
        /\ \A i \in 1 .. Len(q) : Append(q, y)[i] = q[i]
        /\ Append(q, y)[Len(q) + 1] = y
    OBVIOUS
  <1>2. Once(Append(q, y))
    BY <1>1 DEF Once, Holds
  <1>3. Holds(Append(q, y), y)
    BY <1>1 DEF Holds
  <1>4. ASSUME NEW x, x # y, Holds(q, x)
        PROVE  Holds(Append(q, y), x)
    BY <1>1, <1>4 DEF Holds
  <1>5. ASSUME NEW x, x # y, Holds(Append(q, y), x)
        PROVE  Holds(q, x)
    BY <1>1, <1>5 DEF Holds
  <1> QED
    BY <1>1, <1>2, <1>3, <1>4, <1>5

\* A step leaves alone the netconns outside X and the threads other than t.
LeavesAlone(C, D, M, C2, D2, M2, X, t) ==
    /\ C2 = [c \in Conns |-> C2[c]] /\ D2 = [s \in Threads |-> D2[s]]
    /\ \A c \in Conns \ X : C2[c] = C[c]
    /\ \A c \in X : Owned(C[c], C2[c]) \/ C[c].owner \in {Nobody, t}
    /\ \A s \in Threads \ {t} : D2[s] = D[s] /\ (Holds(M2, s) <=> Holds(M, s))
    /\ t \in Threads => D[t].conn \in X \cup {Nobody} /\ D2[t].conn \in X \cup {Nobody}
LocalOn(C, D, M, X) == \A c \in X : Local(C[c], Mine(C, D, c), IsPosted(C, D, M, c))

\* A step that leaves alone what LeavesAlone says keeps the invariant if it does so for
\* the netconns in X, the thread t, the mailbox of the stack and the acceptmboxes.
LEMMA Frame ==
  ASSUME NEW C, NEW D, NEW M, NEW C2, NEW D2, NEW M2, Sane(C, D, M),
         NEW X \in SUBSET Conns, NEW t \in Threads \cup {Nobody},
         LeavesAlone(C, D, M, C2, D2, M2, X, t),
         t \in Threads => CallOK(C2, t, D2[t]),
         Mailed(D2, M2), Unaccepted(C2), LocalOn(C2, D2, M2, X)
  PROVE  Sane(C2, D2, M2)
  <1> USE DEF LeavesAlone, LocalOn
  <1>1. ASSUME NEW c \in Conns \ X
        PROVE  Local(C2[c], Mine(C2, D2, c), IsPosted(C2, D2, M2, c))
    <2>1. C2[c] = C[c] /\ Local(C[c], Mine(C, D, c), IsPosted(C, D, M, c))
      BY DEF Sane
    <2>2. C[c].owner \in Threads \cup {Nobody}
      BY <2>1 DEF Local, IsNetconn
    <2>3. Mine(C2, D2, c) = Mine(C, D, c)
      BY <2>1, <2>2, NobodyElse DEF Mine
    <2>4. Waits(Mine(C, D, c)) => C[c].owner \in Threads \ {t}
      BY <2>1, <2>2, NobodyElse DEF Mine, Waits, Resting
    <2>5. IsPosted(C2, D2, M2, c) <=> IsPosted(C, D, M, c)
      BY <2>1, <2>3, <2>4 DEF IsPosted
    <2>6. IsPosted(C2, D2, M2, c) = IsPosted(C, D, M, c)
      BY <2>5 DEF IsPosted
    <2> QED
      BY <2>1, <2>3, <2>6
  <1>2. ASSUME NEW s \in Threads \ {t}
        PROVE  CallOK(C2, s, D2[s])
    <2>1. D2[s] = D[s] /\ CallOK(C, s, D[s]) /\ s # Nobody
      BY NobodyElse DEF Sane
    <2>2. ASSUME D[s].pc # "idle", D[s].conn \in Conns, C[D[s].conn].owner = s
          PROVE  Owned(C[D[s].conn], C2[D[s].conn])
      BY <2>1, <2>2 DEF Owned
    <2> QED
      BY <2>1, <2>2 DEF CallOK, Owned
  <1> QED
    BY <1>1, <1>2 DEF Sane

\* A step that changes one netconn only, and no call.
LEMMA EventFrame ==
  ASSUME NEW C, NEW D, NEW M, Sane(C, D, M), NEW c \in Conns, NEW k2, Alike(C[c], k2),
         Local(k2, Mine(C, D, c), IsPosted(C, D, M, c))
  PROVE  Sane([C EXCEPT ![c] = k2], D, M)
  <1> DEFINE C2 == [C EXCEPT ![c] = k2]
  <1>1. /\ C = [d \in Conns |-> C[d]] /\ D = [s \in Threads |-> D[s]] /\ Mailed(D, M)
             /\ Unaccepted(C)
    BY DEF Sane
  <1>2. C2 = [d \in Conns |-> C2[d]] /\ C2[c] = k2 /\ \A d \in Conns \ {c} : C2[d] = C[d]
    BY <1>1
  <1> HIDE DEF C2
  <1>3. Unaccepted(C2)
    <2>1. \A d \in Conns : Alike(C[d], C2[d])
      BY <1>2 DEF Alike
    <2> QED
      BY <1>1, <2>1 DEF Unaccepted, Alike
  <1>4. Mine(C2, D, c) = Mine(C, D, c) /\ IsPosted(C2, D, M, c) = IsPosted(C, D, M, c)
    BY <1>2 DEF Mine, IsPosted, Alike
  <1>5. Nobody \in Threads \cup {Nobody} /\ Nobody \notin Threads
          /\ Threads \ {Nobody} = Threads
    BY NobodyElse
  <1>6. Owned(C[c], C2[c])
    BY <1>2 DEF Owned, Alike
  <1>7. Local(C2[c], Mine(C2, D, c), IsPosted(C2, D, M, c))
    BY <1>2, <1>4
  <1>8. Sane(C2, D, M)
    <2>1. LeavesAlone(C, D, M, C2, D, M, {c}, Nobody)
      BY <1>1, <1>2, <1>5, <1>6 DEF LeavesAlone
    <2>2. LocalOn(C2, D, M, {c})
      BY <1>7 DEF LocalOn
    <2> QED
      BY <1>1, <1>3, <1>5, <2>1, <2>2, Frame
  <1> QED
    BY <1>8 DEF C2

\* A step of one call and its netconn.
LEMMA CallFrame ==
  ASSUME NEW C, NEW D, NEW M, NEW M2, Sane(C, D, M), NEW c \in Conns, NEW k2,
           NEW t \in Threads, NEW m2,
         NEW p2, Alike(C[c], k2), C[c].owner = t, D[t].conn \in {c, Nobody},
         m2 = Resting \/ (m2.pc # "idle" /\ m2.conn = c /\ CallOK(C, t, m2)),
         Mailed([D EXCEPT ![t] = m2], M2),
         \A s \in Threads \ {t} : Holds(M2, s) <=> Holds(M, s),
         Local(k2, m2, p2), p2 <=> (Waits(m2) /\ Holds(M2, t)), p2 \in BOOLEAN
  PROVE  Sane([C EXCEPT ![c] = k2], [D EXCEPT ![t] = m2], M2)
  <1> DEFINE C2 == [C EXCEPT ![c] = k2]
             D2 == [D EXCEPT ![t] = m2]
  <1>1. /\ C = [d \in Conns |-> C[d]] /\ D = [s \in Threads |-> D[s]] /\ Unaccepted(C)
        /\ Mailed(D2, M2)
    BY DEF Sane
  <1>2. /\ C2 = [d \in Conns |-> C2[d]] /\ C2[c] = k2 /\ \A d \in Conns \ {c} : C2[d] = C[d]
        /\ D2 = [s \in Threads |-> D2[s]] /\ D2[t] = m2 /\ \A s \in Threads \ {t} : D2[s] = D[s]
    BY <1>1
  <1> HIDE DEF C2, D2
  <1>3. Unaccepted(C2)
    <2>1. \A d \in Conns : Alike(C[d], C2[d])
      BY <1>2 DEF Alike
    <2> QED
      BY <1>1, <2>1 DEF Unaccepted, Alike
  <1>4. Resting.conn = Nobody /\ Resting.pc = "idle"
    BY DEF Resting
  <1>5. Mine(C2, D2, c) = m2
    BY <1>2, <1>4, NobodyElse DEF Mine, Alike
  <1>6. IsPosted(C2, D2, M2, c) = p2
    <2>1. C2[c].owner = t
      BY <1>2 DEF Alike
    <2> QED
      BY <1>5, <2>1 DEF IsPosted
  <1>7. Owned(C[c], C2[c])
    BY <1>2 DEF Owned, Alike
  <1>8. CallOK(C2, t, D2[t])
    <2>1. CASE m2 = Resting
      BY <1>2, <1>4, <2>1 DEF CallOK
    <2>2. CASE m2.pc # "idle" /\ m2.conn = c /\ CallOK(C, t, m2)
      BY <1>2, <1>7, <2>2 DEF CallOK, Owned
    <2> QED
      BY <2>1, <2>2
  <1>9. Local(C2[c], Mine(C2, D2, c), IsPosted(C2, D2, M2, c))
    BY <1>2, <1>5, <1>6
  <1>10. D[t].conn \in {c} \cup {Nobody} /\ D2[t].conn \in {c} \cup {Nobody}
    BY <1>2, <1>4
  <1>11. Sane(C2, D2, M2)
    <2>1. LeavesAlone(C, D, M, C2, D2, M2, {c}, t)
      BY <1>1, <1>2, <1>7, <1>10 DEF LeavesAlone
    <2>2. LocalOn(C2, D2, M2, {c})
      BY <1>9 DEF LocalOn
    <2>3. {c} \in SUBSET Conns /\ t \in Threads \cup {Nobody}
      OBVIOUS
    <2> QED
      BY <1>1, <1>3, <1>8, <2>1, <2>2, <2>3, Frame
  <1> QED
    BY <1>11 DEF C2, D2

\* The three ways the mailbox of the stack may go in such a step.
LEMMA MailedStill ==
  ASSUME NEW D, NEW M, Mailed(D, M), D = [s \in Threads |-> D[s]], NEW t \in Threads, NEW m2
  PROVE  /\ ~Holds(M, t) => Mailed([D EXCEPT ![t] = m2], M)
         /\ Waits(m2) /\ ~Holds(M, t) => Mailed([D EXCEPT ![t] = m2], Append(M, t))
         /\ M # <<>> /\ t = Head(M) => Mailed([D EXCEPT ![t] = m2], Tail(M))
  <1> DEFINE D2 == [D EXCEPT ![t] = m2]
  <1>1. D2[t] = m2 /\ \A s \in Threads : s # t => D2[s] = D[s]
    OBVIOUS
  <1> HIDE DEF D2
  <1>2. M \in Seq(Threads) /\ Once(M) /\ \A s \in Threads : Holds(M, s) => Waits(D[s])
    BY DEF Mailed
  <1>3. ~Holds(M, t) => Mailed(D2, M)
    BY <1>1, <1>2 DEF Mailed
  <1>4. ASSUME Waits(m2), ~Holds(M, t) PROVE Mailed(D2, Append(M, t))
    <2>1. /\ Append(M, t) \in Seq(Threads) /\ Once(Append(M, t))
          /\ \A x : x # t => (Holds(Append(M, t), x) <=> Holds(M, x))
      BY <1>2, <1>4, MailPut
    <2> QED
      BY <1>1, <1>2, <1>4, <2>1 DEF Mailed
  <1>5. ASSUME M # <<>>, t = Head(M) PROVE Mailed(D2, Tail(M))
    <2>1. /\ Tail(M) \in Seq(Threads) /\ Once(Tail(M)) /\ ~Holds(Tail(M), t)
          /\ \A x : x # t => (Holds(Tail(M), x) <=> Holds(M, x))
      BY <1>2, <1>5, MailTaken
    <2> QED
      BY <1>1, <1>2, <2>1 DEF Mailed
  <1> QED
    BY <1>3, <1>4, <1>5 DEF D2

\* What is known of a netconn and its owner.
LEMMA OwnerIs ==
  ASSUME NEW C, NEW D, NEW M, Sane(C, D, M), NEW c \in Conns
  PROVE  /\ IsNetconn(C[c]) /\ C[c].owner \in Threads \cup {Nobody}
         /\ Local(C[c], Mine(C, D, c), IsPosted(C, D, M, c))
         /\ Waits(Mine(C, D, c)) => /\ C[c].owner \in Threads /\ Mine(C, D, c) = D[C[c].owner]
                                    /\ D[C[c].owner].conn = c
  <1>1. Local(C[c], Mine(C, D, c), IsPosted(C, D, M, c))
    BY DEF Sane
  <1>2. IsNetconn(C[c]) /\ C[c].owner \in Threads \cup {Nobody}
    BY <1>1 DEF Local, IsNetconn
  <1>3. Resting.pc = "idle"
    BY DEF Resting
  <1>4. Waits(Mine(C, D, c)) => /\ C[c].owner \in Threads /\ Mine(C, D, c) = D[C[c].owner]
                                /\ D[C[c].owner].conn = c
    BY <1>2, <1>3 DEF Mine, Waits
  <1> QED
    BY <1>1, <1>2, <1>4

\* What is known of a netconn that keeps a message.
LEMMA KeptOf ==
  ASSUME NEW C, NEW D, NEW M, Sane(C, D, M), NEW c \in Conns, C[c].current # Nobody
  PROVE  /\ C[c].current = C[c].owner /\ C[c].current \in Threads
         /\ Mine(C, D, c) = D[C[c].current] /\ D[C[c].current].conn = c
         /\ Waits(Mine(C, D, c)) /\ ~Holds(M, C[c].current)
         /\ Local(C[c], Mine(C, D, c), FALSE)
  <1>1. Local(C[c], Mine(C, D, c), IsPosted(C, D, M, c))
    BY DEF Sane
  <1>2. Woken(C[c], Mine(C, D, c), IsPosted(C, D, M, c))
    BY <1>1 DEF Local
  <1>3. /\ C[c].current = C[c].owner /\ Waits(Mine(C, D, c)) /\ ~IsPosted(C, D, M, c)
    BY <1>2 DEF Woken
  <1>4. C[c].owner \in Threads /\ Mine(C, D, c) = D[C[c].owner] /\ D[C[c].owner].conn = c
    BY <1>3, OwnerIs
  <1>5. IsPosted(C, D, M, c) = FALSE /\ ~Holds(M, C[c].current)
    BY <1>3 DEF IsPosted
  <1>6. Local(C[c], Mine(C, D, c), FALSE)
    BY <1>1, <1>5
  <1> QED
    BY <1>3, <1>4, <1>5, <1>6

\* What is known of a thread in a call.
LEMMA CallIs ==
  ASSUME NEW C, NEW D, NEW M, Sane(C, D, M), NEW t \in Threads, D[t].pc # "idle"
  PROVE  /\ D[t].conn \in Conns /\ C[D[t].conn].used /\ C[D[t].conn].owner = t
         /\ Mine(C, D, D[t].conn) = D[t]
         /\ IsPosted(C, D, M, D[t].conn) = (Waits(D[t]) /\ Holds(M, t))
         /\ Local(C[D[t].conn], D[t], Waits(D[t]) /\ Holds(M, t))
         /\ CallOK(C, t, D[t])
  <1> DEFINE c == D[t].conn
  <1>1. CallOK(C, t, D[t]) /\ t # Nobody
    BY NobodyElse DEF Sane
  <1>2. c \in Conns /\ C[c].used /\ C[c].owner = t
    BY <1>1 DEF CallOK
  <1>3. Mine(C, D, c) = D[t]
    BY <1>1, <1>2 DEF Mine
  <1>4. IsPosted(C, D, M, c) = (Waits(D[t]) /\ Holds(M, t))
    BY <1>2, <1>3 DEF IsPosted
  <1>5. Local(C[c], Mine(C, D, c), IsPosted(C, D, M, c))
    BY <1>2 DEF Sane
  <1> QED
    BY <1>1, <1>2, <1>3, <1>4, <1>5

\* An idle thread.
LEMMA IdleIs ==
  ASSUME NEW C, NEW D, NEW M, Sane(C, D, M), NEW t \in Threads, D[t].pc = "idle"
  PROVE  D[t] = Resting /\ D[t].conn = Nobody /\ ~Holds(M, t)
  <1>1. D[t] = Resting /\ Resting.conn = Nobody /\ Resting.pc = "idle" /\ ~Waits(Resting)
    BY DEF Sane, CallOK, Resting, Waits
  <1>2. ~Holds(M, t)
    BY <1>1 DEF Sane, Mailed
  <1> QED
    BY <1>1, <1>2

\* A netconn of an idle thread.
LEMMA IdleOwner ==
  ASSUME NEW C, NEW D, NEW M, Sane(C, D, M), NEW t \in Threads, D[t].pc = "idle",
         NEW c \in Conns, C[c].owner = t
  PROVE  Mine(C, D, c) = Resting /\ Local(C[c], Resting, FALSE)
  <1>1. D[t] = Resting /\ ~Waits(Resting)
    BY IdleIs DEF Resting, Waits
  <1>2. Mine(C, D, c) = Resting
    BY <1>1 DEF Mine
  <1>3. IsPosted(C, D, M, c) = FALSE
    BY <1>1, <1>2 DEF IsPosted
  <1>4. Local(C[c], Mine(C, D, c), IsPosted(C, D, M, c))
    BY DEF Sane
  <1> QED
    BY <1>2, <1>3, <1>4

\* A netconn that is free.
LEMMA UnusedIs ==
  Local(Unused, Resting, FALSE)
  <1> DEFINE u == Unused
             n == Resting
  <1> USE NetFieldsAre, CallFieldsAre, NobodyElse
  <1>1. /\ u.used = FALSE /\ u.owner = Nobody /\ u.type = "TCP" /\ u.nonblocking = FALSE
        /\ u.connecting = FALSE /\ u.state = "NONE" /\ u.pcb = "none" /\ u.lastErr = "ok"
        /\ u.current = Nobody /\ u.sem = 0 /\ u.offset = 0 /\ u.boxes = {} /\ u.recvmbox = <<>>
        /\ u.acceptmbox = <<>> /\ u.rx = TRUE /\ u.given = 0 /\ u.refused = 0 /\ u.fin = "no"
        /\ u.unread = 0 /\ u.space = SndBuf /\ u.read = 0 /\ u.used \in BOOLEAN
        /\ u.rx \in BOOLEAN /\ u.nonblocking \in BOOLEAN /\ u.connecting \in BOOLEAN
        /\ DOMAIN u = NetFields
    BY DEF u, Fresh, Unused
  <1>2. /\ n.pc = "idle" /\ n.conn = Nobody /\ n.op = "none" /\ n.err = "unset" /\ n.size = 0
        /\ n.len = 0 /\ n.queued = 0 /\ n.dontblock = FALSE /\ n.got = 0
        /\ n.dontblock \in BOOLEAN /\ DOMAIN n = CallFields
    BY DEF n, Resting
  <1> HIDE DEF u, n
  <1>3. IsNetconn(u) /\ IsCall(n)
    <2>1. /\ <<>> \in Seq(Nat) /\ <<>> \in Seq(Conns)
      OBVIOUS
    <2>4. u.boxes \in SUBSET {"recv", "accept"}
      BY <1>1
    <2>5. u.recvmbox \in Seq(Nat) /\ u.acceptmbox \in Seq(Conns)
      BY <1>1, <2>1
    <2>6. /\ u.pcb \in {"none", "new", "udp", "listen", "syn", "open"} /\ u.lastErr \in Answers
          /\ u.state \in {"NONE", "WRITE", "LISTEN", "CONNECT", "CLOSE"}
          /\ u.fin \in {"no", "kept", "told", "lost"} /\ u.type \in {"TCP", "UDP"}
      BY <1>1 DEF Answers
    <2>2. IsNetconn(u)
      BY <1>1, <2>4, <2>5, <2>6 DEF IsNetconn
    <2>3. IsCall(n)
      BY <1>2 DEF IsCall, Ops, Answers
    <2> QED
      BY <2>2, <2>3
  <1>4. u = Unused
    BY <1>1 DEF u
  <1>5. Woken(u, n, FALSE)
    BY <1>1, <1>2, <1>4 DEF Woken, Waits, Answers
  <1>6. Busy(u, n)
    BY <1>1, <1>2, <1>4 DEF Busy, KeepsMessage
  <1>7. Blocks(u, n)
    BY <1>1, <1>2, <1>4 DEF Blocks
  <1>8. Shape(u)
    BY <1>1, <1>2, <1>4 DEF Shape
  <1>9. Made(u, n)
    BY <1>1, <1>2, <1>4 DEF Made, Waits, Receives, Answers
  <1>10. Sees(u, n)
    BY <1>1, <1>2, <1>4 DEF Sees, Waits
  <1>11. Pieces(u, n, FALSE)
    <2>1. InLine(u, n, FALSE, 0)
      BY <1>1, <1>2 DEF InLine, Run, HasPiece, Receives, Waits, Has, HasUntold, HasRefused, Base
    <2> QED
      BY <2>1 DEF Pieces
  <1>12. Tells(u, n, FALSE)
    BY <1>1, <1>2, <1>4 DEF Tells
  <1> QED
    BY <1>3, <1>5, <1>6, <1>7, <1>8,
       <1>9, <1>10, <1>11, <1>12 DEF Local, u, n

\* netconn_new: the netconn, and the message that asks for its pcb.
LEMMA NewComes ==
  ASSUME NEW t \in Threads, NEW c \in Conns, NEW type \in {"TCP", "UDP"},
           NEW nonblocking \in BOOLEAN
  PROVE  /\ Local([Fresh(type, nonblocking) EXCEPT !.owner = t], [[Resting EXCEPT !.conn = c,
              !.op = "newconn"] EXCEPT !.pc = "waits", !.err = "unset"], TRUE)
  <1> DEFINE u == [Fresh(type, nonblocking) EXCEPT !.owner = t]
             n == [[Resting EXCEPT !.conn = c, !.op = "newconn"] EXCEPT !.pc = "waits",
                    !.err = "unset"]
  <1> USE NetFieldsAre, CallFieldsAre, NobodyElse
  <1>1. /\ u.used = TRUE /\ u.owner = t /\ u.type = type /\ u.nonblocking = nonblocking
        /\ u.connecting = FALSE /\ u.state = "NONE" /\ u.pcb = "none" /\ u.lastErr = "ok"
        /\ u.current = Nobody /\ u.sem = 0 /\ u.offset = 0 /\ u.boxes = {"recv"}
        /\ u.recvmbox = <<>> /\ u.acceptmbox = <<>> /\ u.rx = TRUE /\ u.given = 0
        /\ u.refused = 0 /\ u.fin = "no" /\ u.unread = 0 /\ u.space = SndBuf /\ u.read = 0
        /\ u.used \in BOOLEAN /\ u.rx \in BOOLEAN /\ u.nonblocking \in BOOLEAN
        /\ u.connecting \in BOOLEAN /\ DOMAIN u = NetFields
    BY DEF u, Fresh, Unused
  <1>2. /\ n.pc = "waits" /\ n.conn = c /\ n.op = "newconn" /\ n.err = "unset" /\ n.size = 0
        /\ n.len = 0 /\ n.queued = 0 /\ n.dontblock = FALSE /\ n.got = 0
        /\ n.dontblock \in BOOLEAN /\ DOMAIN n = CallFields
    BY DEF n, Resting
  <1> HIDE DEF u, n
  <1>3. IsNetconn(u) /\ IsCall(n)
    <2>1. /\ <<>> \in Seq(Nat) /\ <<>> \in Seq(Conns)
      OBVIOUS
    <2>4. u.boxes \in SUBSET {"recv", "accept"}
      BY <1>1
    <2>5. u.recvmbox \in Seq(Nat) /\ u.acceptmbox \in Seq(Conns)
      BY <1>1, <2>1
    <2>6. /\ u.pcb \in {"none", "new", "udp", "listen", "syn", "open"} /\ u.lastErr \in Answers
          /\ u.state \in {"NONE", "WRITE", "LISTEN", "CONNECT", "CLOSE"}
          /\ u.fin \in {"no", "kept", "told", "lost"} /\ u.type \in {"TCP", "UDP"}
      BY <1>1 DEF Answers
    <2>2. IsNetconn(u)
      BY <1>1, <2>4, <2>5, <2>6 DEF IsNetconn
    <2>3. IsCall(n)
      BY <1>2 DEF IsCall, Ops, Answers
    <2> QED
      BY <2>2, <2>3
  <1>4. u.used
    BY <1>1 DEF u
  <1>5. Woken(u, n, TRUE)
    BY <1>1, <1>2, <1>4 DEF Woken, Waits, Answers
  <1>6. Busy(u, n)
    BY <1>1, <1>2, <1>4 DEF Busy, KeepsMessage
  <1>7. Blocks(u, n)
    BY <1>1, <1>2, <1>4 DEF Blocks
  <1>8. Shape(u)
    BY <1>1, <1>2, <1>4 DEF Shape
  <1>9. Made(u, n)
    BY <1>1, <1>2, <1>4 DEF Made, Waits, Receives, Answers
  <1>10. Sees(u, n)
    BY <1>1, <1>2, <1>4 DEF Sees, Waits
  <1>11. Pieces(u, n, TRUE)
    <2>1. InLine(u, n, TRUE, 0)
      BY <1>1, <1>2 DEF InLine, Run, HasPiece, Receives, Waits, Has, HasUntold, HasRefused, Base
    <2> QED
      BY <2>1 DEF Pieces
  <1>12. Tells(u, n, TRUE)
    BY <1>1, <1>2, <1>4 DEF Tells
  <1> QED
    BY <1>3, <1>5, <1>6, <1>7, <1>8,
       <1>9, <1>10, <1>11, <1>12 DEF Local, u, n

\* accept_function: a connection nobody has accepted yet.
LEMMA OpenComes ==
  Local([Fresh("TCP", FALSE) EXCEPT !.pcb = "open"], Resting, FALSE)
  <1> DEFINE u == [Fresh("TCP", FALSE) EXCEPT !.pcb = "open"]
             n == Resting
  <1> USE NetFieldsAre, CallFieldsAre, NobodyElse
  <1>1. /\ u.used = TRUE /\ u.owner = Nobody /\ u.type = "TCP" /\ u.nonblocking = FALSE
        /\ u.connecting = FALSE /\ u.state = "NONE" /\ u.pcb = "open" /\ u.lastErr = "ok"
        /\ u.current = Nobody /\ u.sem = 0 /\ u.offset = 0 /\ u.boxes = {"recv"}
        /\ u.recvmbox = <<>> /\ u.acceptmbox = <<>> /\ u.rx = TRUE /\ u.given = 0
        /\ u.refused = 0 /\ u.fin = "no" /\ u.unread = 0 /\ u.space = SndBuf /\ u.read = 0
        /\ u.used \in BOOLEAN /\ u.rx \in BOOLEAN /\ u.nonblocking \in BOOLEAN
        /\ u.connecting \in BOOLEAN /\ DOMAIN u = NetFields
    BY DEF u, Fresh, Unused
  <1>2. /\ n.pc = "idle" /\ n.conn = Nobody /\ n.op = "none" /\ n.err = "unset" /\ n.size = 0
        /\ n.len = 0 /\ n.queued = 0 /\ n.dontblock = FALSE /\ n.got = 0
        /\ n.dontblock \in BOOLEAN /\ DOMAIN n = CallFields
    BY DEF n, Resting
  <1> HIDE DEF u, n
  <1>3. IsNetconn(u) /\ IsCall(n)
    <2>1. /\ <<>> \in Seq(Nat) /\ <<>> \in Seq(Conns)
      OBVIOUS
    <2>4. u.boxes \in SUBSET {"recv", "accept"}
      BY <1>1
    <2>5. u.recvmbox \in Seq(Nat) /\ u.acceptmbox \in Seq(Conns)
      BY <1>1, <2>1
    <2>6. /\ u.pcb \in {"none", "new", "udp", "listen", "syn", "open"} /\ u.lastErr \in Answers
          /\ u.state \in {"NONE", "WRITE", "LISTEN", "CONNECT", "CLOSE"}
          /\ u.fin \in {"no", "kept", "told", "lost"} /\ u.type \in {"TCP", "UDP"}
      BY <1>1 DEF Answers
    <2>2. IsNetconn(u)
      BY <1>1, <2>4, <2>5, <2>6 DEF IsNetconn
    <2>3. IsCall(n)
      BY <1>2 DEF IsCall, Ops, Answers
    <2> QED
      BY <2>2, <2>3
  <1>4. u.used
    BY <1>1 DEF u
  <1>5. Woken(u, n, FALSE)
    BY <1>1, <1>2, <1>4 DEF Woken, Waits, Answers
  <1>6. Busy(u, n)
    BY <1>1, <1>2, <1>4 DEF Busy, KeepsMessage
  <1>7. Blocks(u, n)
    BY <1>1, <1>2, <1>4 DEF Blocks
  <1>8. Shape(u)
    BY <1>1, <1>2, <1>4 DEF Shape
  <1>9. Made(u, n)
    BY <1>1, <1>2, <1>4 DEF Made, Waits, Receives, Answers
  <1>10. Sees(u, n)
    BY <1>1, <1>2, <1>4 DEF Sees, Waits
  <1>11. Pieces(u, n, FALSE)
    <2>1. InLine(u, n, FALSE, 0)
      BY <1>1, <1>2 DEF InLine, Run, HasPiece, Receives, Waits, Has, HasUntold, HasRefused, Base
    <2> QED
      BY <2>1 DEF Pieces
  <1>12. Tells(u, n, FALSE)
    BY <1>1, <1>2, <1>4 DEF Tells
  <1> QED
    BY <1>3, <1>5, <1>6, <1>7, <1>8,
       <1>9, <1>10, <1>11, <1>12 DEF Local, u, n

\* An event tells the caller that waits.
LEMMA TellFrame ==
  ASSUME NEW C, NEW D, NEW M, Sane(C, D, M), NEW c \in Conns, NEW k2, NEW t \in Threads, NEW m2,
         C[c].owner = t, D[t].conn = c, D[t].pc # "idle", ~Holds(M, t),
         Alike(C[c], k2), SameCall(D[t], m2), Local(k2, m2, FALSE)
  PROVE  Sane([C EXCEPT ![c] = k2], [D EXCEPT ![t] = m2], M)
  <1>1. CallOK(C, t, D[t]) /\ Mailed(D, M) /\ D = [s \in Threads |-> D[s]]
    BY DEF Sane
  <1>2. m2.pc # "idle" /\ m2.conn = c /\ CallOK(C, t, m2)
    BY <1>1 DEF SameCall, CallOK
  <1>3. Mailed([D EXCEPT ![t] = m2], M)
    BY <1>1, MailedStill
  <1>4. (FALSE <=> (Waits(m2) /\ Holds(M, t))) /\ FALSE \in BOOLEAN
    OBVIOUS
  <1>5. \A s \in Threads \ {t} : Holds(M, s) <=> Holds(M, s)
    OBVIOUS
  <1>6. D[t].conn \in {c, Nobody}
    OBVIOUS
  <1> QED
    BY <1>2, <1>3, <1>4, <1>5, <1>6, CallFrame

\* The stack answers a message, or keeps it.
LEMMA AnswerFrame ==
  ASSUME NEW C, NEW D, NEW M, Sane(C, D, M), NEW c \in Conns, NEW k2, NEW t \in Threads, NEW m2,
         M # <<>>, t = Head(M), C[c].owner = t, D[t].conn = c, D[t].pc # "idle",
         Alike(C[c], k2), SameCall(D[t], m2), Local(k2, m2, FALSE)
  PROVE  Sane([C EXCEPT ![c] = k2], [D EXCEPT ![t] = m2], Tail(M))
  <1>1. CallOK(C, t, D[t]) /\ Mailed(D, M) /\ D = [s \in Threads |-> D[s]]
    BY DEF Sane
  <1>2. m2.pc # "idle" /\ m2.conn = c /\ CallOK(C, t, m2)
    BY <1>1 DEF SameCall, CallOK
  <1>3. Mailed([D EXCEPT ![t] = m2], Tail(M))
    BY <1>1, MailedStill
  <1>4. ~Holds(Tail(M), t) /\ \A s \in Threads \ {t} : Holds(Tail(M), s) <=> Holds(M, s)
    BY <1>1, MailTaken DEF Mailed
  <1>5. (FALSE <=> (Waits(m2) /\ Holds(Tail(M), t))) /\ FALSE \in BOOLEAN
    BY <1>4
  <1>6. D[t].conn \in {c, Nobody}
    OBVIOUS
  <1> QED
    BY <1>2, <1>3, <1>4, <1>5, <1>6, CallFrame

\* A thread puts a message into the mailbox of the stack.
LEMMA PostFrame ==
  ASSUME NEW C, NEW D, NEW M, Sane(C, D, M), NEW c \in Conns, NEW t \in Threads, NEW m2,
         C[c].owner = t, D[t].conn \in {c, Nobody}, ~Holds(M, t), Waits(m2), m2.conn = c,
         CallOK(C, t, m2), Local(C[c], m2, TRUE)
  PROVE  Sane(C, [D EXCEPT ![t] = m2], Append(M, t))
  <1>1. Mailed(D, M) /\ D = [s \in Threads |-> D[s]] /\ C = [d \in Conns |-> C[d]]
    BY DEF Sane
  <1>2. m2.pc # "idle"
    BY DEF Waits
  <1>3. Mailed([D EXCEPT ![t] = m2], Append(M, t))
    BY <1>1, MailedStill
  <1>4. Holds(Append(M, t), t) /\ \A s \in Threads \ {t} : Holds(Append(M, t), s) <=> Holds(M,
          s)
    BY <1>1, MailPut DEF Mailed
  <1>5. (TRUE <=> (Waits(m2) /\ Holds(Append(M, t), t))) /\ TRUE \in BOOLEAN
    BY <1>4
  <1>6. [C EXCEPT ![c] = C[c]] = C /\ Alike(C[c], C[c])
    BY <1>1 DEF Alike
  <1>7. Sane([C EXCEPT ![c] = C[c]], [D EXCEPT ![t] = m2], Append(M, t))
    BY <1>2, <1>3, <1>4, <1>5, <1>6, CallFrame
  <1> QED
    BY <1>6, <1>7

\* A call goes on in its thread, without a message.
LEMMA ThreadFrame ==
  ASSUME NEW C, NEW D, NEW M, Sane(C, D, M), NEW c \in Conns, NEW k2, NEW t \in Threads, NEW m2,
         C[c].owner = t, D[t].conn \in {c, Nobody}, ~Holds(M, t), Alike(C[c], k2),
         m2 = Resting \/ (m2.pc # "idle" /\ m2.conn = c /\ CallOK(C, t, m2)), Local(k2, m2,
           FALSE)
  PROVE  Sane([C EXCEPT ![c] = k2], [D EXCEPT ![t] = m2], M)
  <1>1. Mailed(D, M) /\ D = [s \in Threads |-> D[s]]
    BY DEF Sane
  <1>2. Mailed([D EXCEPT ![t] = m2], M)
    BY <1>1, MailedStill
  <1>3. (FALSE <=> (Waits(m2) /\ Holds(M, t))) /\ FALSE \in BOOLEAN
    OBVIOUS
  <1>4. \A s \in Threads \ {t} : Holds(M, s) <=> Holds(M, s)
    OBVIOUS
  <1> QED
    BY <1>2, <1>3, <1>4, CallFrame

\* The inductive invariant.
NetInv == Sane(conns, callers, tcpipMbox)

\* The answer of a message, as a change of one call.
LEMMA ToldIs ==
  ASSUME NetInv, NEW t \in Threads, NEW e
  PROVE  Told(t, e) = [callers EXCEPT ![t] = [callers[t] EXCEPT !.err = e]]
         /\ SameCall(callers[t], [callers[t] EXCEPT !.err = e])
  <1>1. callers = [s \in Threads |-> callers[s]] /\ CallOK(conns, t, callers[t])
    BY DEF NetInv, Sane
  <1>2. DOMAIN callers[t] = CallFields
    <2>1. CASE callers[t].pc = "idle"
      BY <1>1, <2>1 DEF CallOK, CallFields
    <2>2. CASE callers[t].pc # "idle"
      <3>1. Local(conns[callers[t].conn], callers[t], Waits(callers[t]) /\ Holds(tcpipMbox, t))
        BY <2>2, CallIs DEF NetInv
      <3> QED
        BY <3>1 DEF Local, IsCall
    <2> QED
      BY <2>1, <2>2
  <1> QED
    BY <1>1, <1>2, CallFieldsAre DEF Told, SameCall

\* A step of a netconn that nobody waits for, an event that tells the caller.
LEMMA EventStep ==
  ASSUME NetInv, NEW c \in Conns, NEW k2, Alike(conns[c], k2),
         Local(k2, Mine(conns, callers, c), IsPosted(conns, callers, tcpipMbox, c)),
         conns' = [conns EXCEPT ![c] = k2], UNCHANGED <<callers, tcpipMbox>>
  PROVE  NetInv'
  <1>1. Sane([conns EXCEPT ![c] = k2], callers, tcpipMbox)
    BY EventFrame DEF NetInv
  <1> QED
    BY <1>1 DEF NetInv

\* The thread whose message a netconn keeps.
LEMMA KeptIs ==
  ASSUME NetInv, NEW c \in Conns, conns[c].current # Nobody
  PROVE  LET t == conns[c].current IN
         /\ t \in Threads /\ conns[c].owner = t /\ callers[t].conn = c
              /\ callers[t].pc = "waits"
         /\ ~Holds(tcpipMbox, t) /\ Local(conns[c], callers[t], FALSE)
         /\ Mine(conns, callers, c) = callers[t]
  <1>0. Sane(conns, callers, tcpipMbox)
    BY DEF NetInv
  <1>1. /\ conns[c].current = conns[c].owner /\ conns[c].current \in Threads
        /\ Mine(conns, callers, c) = callers[conns[c].current]
             /\ callers[conns[c].current].conn = c
        /\ Waits(Mine(conns, callers, c)) /\ ~Holds(tcpipMbox, conns[c].current)
        /\ Local(conns[c], Mine(conns, callers, c), FALSE)
    BY <1>0, KeptOf, Zenon
  <1>4. Local(conns[c], Mine(conns, callers, c), FALSE)
    BY <1>1
  <1>2. Mine(conns, callers, c) = callers[conns[c].current]
    BY <1>1
  <1>3. Local(conns[c], callers[conns[c].current], FALSE)
    BY <1>2, <1>4
  <1> QED
    BY <1>1, <1>2, <1>3 DEF Waits

\* An event answers the message that is kept.
LEMMA TellStep ==
  ASSUME NetInv, NEW c \in Conns, conns[c].current # Nobody, NEW k2, NEW m2,
         Alike(conns[c], k2), SameCall(callers[conns[c].current], m2), Local(k2, m2, FALSE),
         conns' = [conns EXCEPT ![c] = k2],
           callers' = [callers EXCEPT ![conns[c].current] = m2],
         UNCHANGED tcpipMbox
  PROVE  NetInv'
  <1> DEFINE t == conns[c].current
  <1>1. /\ t \in Threads /\ conns[c].owner = t /\ callers[t].conn = c /\ callers[t].pc # "idle"
        /\ ~Holds(tcpipMbox, t)
    BY KeptIs
  <1>2. Sane([conns EXCEPT ![c] = k2], [callers EXCEPT ![t] = m2], tcpipMbox)
    BY <1>1, TellFrame DEF NetInv
  <1> QED
    BY <1>2 DEF NetInv

\* do_connected
LEMMA ConnectedStep ==
  ASSUME NetInv, NEW c \in Conns, do_connected(c)
  PROVE  NetInv'
  <1> DEFINE k == conns[c]
             up == [k EXCEPT !.pcb = "open", !.state = "NONE", !.connecting = FALSE,
                     !.current = Nobody]
             m == Mine(conns, callers, c)
             p == IsPosted(conns, callers, tcpipMbox, c)
  <1>1. Local(k, m, p)
    BY OwnerIs DEF NetInv
  <1>2. k.pcb = "syn" /\ UNCHANGED tcpipMbox
        /\ conns' = [conns EXCEPT ![c] = IF k.connecting THEN SafeErr(up, "ok") ELSE Signal(up)]
        /\ callers' = IF k.current = Nobody THEN callers ELSE Told(k.current, "ok")
    BY DEF do_connected
  <1>3. k.current # Nobody <=> ~k.connecting
    BY <1>1, <1>2 DEF Local, Busy, KeepsMessage, Shape
  <1>4. CASE k.connecting
    <2>1. Local(SafeErr(up, "ok"), m, p) /\ Alike(k, SafeErr(up, "ok"))
      BY <1>1, <1>2, <1>4, ConnectedKeeps
    <2>2. conns' = [conns EXCEPT ![c] = SafeErr(up, "ok")] /\ UNCHANGED <<callers, tcpipMbox>>
      BY <1>2, <1>3, <1>4
    <2> QED
      BY <2>1, <2>2, EventStep
  <1>5. CASE ~k.connecting
    <2> DEFINE t == k.current
               m2 == [callers[t] EXCEPT !.err = "ok"]
    <2>1. t # Nobody /\ t \in Threads /\ Local(k, callers[t], FALSE)
      BY <1>3, <1>5, KeptIs
    <2>2. Local(Signal(up), m2, FALSE) /\ Alike(k, Signal(up)) /\ SameCall(callers[t], m2)
      BY <1>2, <1>5, <2>1, ConnectedTells
    <2>3. conns' = [conns EXCEPT ![c] = Signal(up)] /\ callers' = [callers EXCEPT ![t] = m2]
      BY <1>2, <1>5, <2>1, ToldIs
    <2> QED
      BY <1>2, <2>1, <2>2, <2>3, TellStep
  <1> QED
    BY <1>4, <1>5

\* err_tcp
LEMMA ErrStep ==
  ASSUME NetInv, NEW c \in Conns, conns[c].pcb \in {"syn", "open"}, err_tcp(c)
  PROVE  NetInv'
  <1> DEFINE k == conns[c]
             m == Mine(conns, callers, c)
             p == IsPosted(conns, callers, tcpipMbox, c)
             q == IF "recv" \in k.boxes THEN Posted(k.recvmbox, RecvBox, 0) ELSE k.recvmbox
             dead == [Gone(k) EXCEPT !.lastErr = "fatal", !.state = "NONE",
                       !.connecting = FALSE,
                                     !.current = Nobody, !.recvmbox = q]
  <1>1. Local(k, m, p) /\ IsNetconn(k)
    BY OwnerIs DEF NetInv
  <1>2. Gone(k).recvmbox = k.recvmbox
    BY <1>1, NetFieldsAre DEF Gone, IsNetconn
  <1>3. UNCHANGED tcpipMbox
        /\ conns' = [conns EXCEPT ![c] = IF KeepsMessage(k) THEN Signal(dead) ELSE dead]
        /\ callers' = IF KeepsMessage(k) THEN Told(k.current, "fatal") ELSE callers
    BY <1>2 DEF err_tcp
  <1>4. q \in Seq(Nat)
    BY <1>1, AppendIs DEF IsNetconn, Posted
  <1>5. k.current # Nobody <=> KeepsMessage(k)
    BY <1>1 DEF Local, Busy
  <1>6. q = IF "recv" \in k.boxes THEN Posted(k.recvmbox, RecvBox, 0) ELSE k.recvmbox
    OBVIOUS
  <1> HIDE DEF q
  <1>7. CASE ~KeepsMessage(k)
    <2>1. Local(dead, m, p) /\ Alike(k, dead)
      BY <1>1, <1>4, <1>6, <1>7, ErrKeeps
    <2>2. conns' = [conns EXCEPT ![c] = dead] /\ UNCHANGED <<callers, tcpipMbox>>
      BY <1>3, <1>7
    <2> QED
      BY <2>1, <2>2, EventStep
  <1>8. CASE KeepsMessage(k)
    <2> DEFINE t == k.current
               m2 == [callers[t] EXCEPT !.err = "fatal"]
    <2>1. t # Nobody /\ t \in Threads /\ Local(k, callers[t], FALSE)
      BY <1>5, <1>8, KeptIs
    <2>2. /\ Local(Signal(dead), m2, FALSE)
          /\ Alike(k, Signal(dead))
          /\ SameCall(callers[t], m2)
      BY <1>4, <1>6, <1>8, <2>1, ErrTells
    <2>3. conns' = [conns EXCEPT ![c] = Signal(dead)] /\ callers' = [callers EXCEPT ![t] = m2]
      BY <1>3, <1>8, <2>1, ToldIs
    <2> QED
      BY <1>3, <2>1, <2>2, <2>3, TellStep
  <1> QED
    BY <1>7, <1>8

\* A piece arrives.
LEMMA DataStep ==
  ASSUME NetInv, NEW c \in Conns, Data(c)
  PROVE  NetInv'
  <1> DEFINE k == conns[c]
             m == Mine(conns, callers, c)
             p == IsPosted(conns, callers, tcpipMbox, c)
             g == [k EXCEPT !.given = @ + 1, !.unread = @ + 1]
             u == recv_tcp(g, k.given + 1)
  <1>1. Local(k, m, p) /\ IsNetconn(k)
    BY OwnerIs DEF NetInv
  <1>2. k.pcb = "open" /\ k.refused = 0 /\ k.fin = "no"
    BY DEF Data
  <1>3. CASE k.rx
    <2>1. conns' = [conns EXCEPT ![c] = u] /\ UNCHANGED <<callers, tcpipMbox>>
      BY <1>3 DEF Data
    <2>2. Local(u, m, p) /\ Alike(k, u)
      <3>1. SafeErr(g, "ok").recvmbox = k.recvmbox /\ g.recvmbox = k.recvmbox
        <4>1. DOMAIN g = NetFields /\ g.recvmbox = k.recvmbox /\ g.lastErr = k.lastErr
          BY <1>1, NetFieldsAre DEF IsNetconn
        <4>2. Heard(g, SafeErr(g, "ok"))
          BY <1>1, <4>1, HeardIs DEF IsNetconn
        <4> QED
          BY <4>1, <4>2 DEF Heard
      <3>2. CASE Takes(g)
        <4>1. u = [SafeErr(g, "ok") EXCEPT !.recvmbox = Append(k.recvmbox, k.given + 1)]
          BY <3>1, <3>2 DEF recv_tcp
        <4>2. /\ Local([SafeErr(g, "ok") EXCEPT !.recvmbox = Append(k.recvmbox, k.given + 1)],
                   m, p)
              /\ Alike(k, [SafeErr(g, "ok") EXCEPT !.recvmbox = Append(k.recvmbox,
                   k.given + 1)])
          BY <1>1, <1>2, <1>3, DataKeeps
        <4> HIDE DEF u
        <4> QED
          BY <4>1, <4>2
      <3>3. CASE ~Takes(g)
        <4>1. u = [SafeErr(g, "ok") EXCEPT !.refused = k.given + 1]
          <5>1. k.given + 1 # 0
            BY <1>1 DEF IsNetconn
          <5> QED
            BY <3>3, <5>1 DEF recv_tcp
        <4>2. /\ Local([SafeErr(g, "ok") EXCEPT !.refused = k.given + 1], m, p)
              /\ Alike(k, [SafeErr(g, "ok") EXCEPT !.refused = k.given + 1])
          BY <1>1, <1>2, <1>3, DataWaits
        <4> HIDE DEF u
        <4> QED
          BY <4>1, <4>2
      <3> QED
        BY <3>2, <3>3
    <2> QED
      BY <2>1, <2>2, EventStep
  <1>4. CASE ~k.rx
    <2>1. err_tcp(c)
      BY <1>4 DEF Data
    <2> QED
      BY <1>2, <2>1, ErrStep
  <1> QED
    BY <1>3, <1>4

\* The peer's FIN.
LEMMA FinStep ==
  ASSUME NetInv, NEW c \in Conns, Fin(c)
  PROVE  NetInv'
  <1> DEFINE k == conns[c]
             m == Mine(conns, callers, c)
             p == IsPosted(conns, callers, tcpipMbox, c)
             g == [k EXCEPT !.fin = "told"]
             s == SafeErr(g, "ok")
             u == IF k.refused # 0 THEN [k EXCEPT !.fin = "kept"]
                  ELSE IF k.rx THEN recv_tcp(g, 0) ELSE g
  <1>1. Local(k, m, p) /\ IsNetconn(k)
    BY OwnerIs DEF NetInv
  <1>2. /\ k.pcb = "open" /\ k.fin = "no"
        /\ conns' = [conns EXCEPT ![c] = u] /\ UNCHANGED <<callers, tcpipMbox>>
    BY DEF Fin
  <1>3. Local(u, m, p) /\ Alike(k, u)
    <2>1. CASE k.refused # 0
      BY <1>1, <1>2, <2>1, FinWaits
    <2>2. k.refused = 0 => Local(g, m, p) /\ Alike(k, g)
      BY <1>1, <1>2, FinKeeps
    <2>3. CASE k.refused = 0 /\ k.rx
      <3>1. DOMAIN g = NetFields /\ g.recvmbox = k.recvmbox /\ g.lastErr = k.lastErr
              /\ g.pcb = "open"
            /\ g.rx = k.rx /\ g.fin = "told"
        BY <1>1, <1>2, NetFieldsAre DEF IsNetconn
      <3>2. Heard(g, s)
        BY <1>1, <3>1, HeardIs DEF IsNetconn
      <3>3. s.recvmbox = g.recvmbox
        BY <3>2 DEF Heard
      <3>4. CASE Takes(g)
        <4>1. u = [s EXCEPT !.recvmbox = Append(g.recvmbox, 0)]
          BY <2>3, <3>3, <3>4 DEF recv_tcp
        <4>2. Local([s EXCEPT !.recvmbox = Append(g.recvmbox, 0)], m, p)
              /\ Alike(g, [s EXCEPT !.recvmbox = Append(g.recvmbox, 0)])
          BY <2>2, <2>3, <3>1, EndTaken
        <4> QED
          BY <2>2, <2>3, <4>1, <4>2 DEF Alike
      <3>5. CASE ~Takes(g)
        <4>1. u = [s EXCEPT !.fin = "lost"]
          BY <2>3, <3>5 DEF recv_tcp
        <4>2. Local([s EXCEPT !.fin = "lost"], m, p) /\ Alike(g, [s EXCEPT !.fin = "lost"])
          BY <2>2, <2>3, <3>1, EndLost
        <4> QED
          BY <2>2, <2>3, <4>1, <4>2 DEF Alike
      <3> QED
        BY <3>4, <3>5
    <2>4. CASE k.refused = 0 /\ ~k.rx
      BY <2>2, <2>4
    <2> QED
      BY <2>1, <2>3, <2>4
  <1> QED
    BY <1>2, <1>3, EventStep

\* tcp_process_refused_data
LEMMA RefusedStep ==
  ASSUME NetInv, NEW c \in Conns, Refused(c)
  PROVE  NetInv'
  <1> DEFINE k == conns[c]
             m == Mine(conns, callers, c)
             p == IsPosted(conns, callers, tcpipMbox, c)
             g == [k EXCEPT !.refused = 0]
             s == SafeErr(g, "ok")
             a == recv_tcp(g, k.refused)
             b == [a EXCEPT !.fin = "told"]
             u == IF a.refused = 0 /\ k.fin = "kept" THEN recv_tcp(b, 0) ELSE a
  <1>1. Local(k, m, p) /\ IsNetconn(k)
    BY OwnerIs DEF NetInv
  <1>2. /\ k.pcb = "open" /\ k.refused # 0
        /\ conns' = [conns EXCEPT ![c] = u] /\ UNCHANGED <<callers, tcpipMbox>>
    BY DEF Refused
  <1>3. k.rx
    BY <1>1, <1>2 DEF Local, Shape
  <1>4. DOMAIN g = NetFields /\ g.recvmbox = k.recvmbox /\ g.lastErr = k.lastErr
          /\ g.refused = 0
    BY <1>1, NetFieldsAre DEF IsNetconn
  <1>5. Heard(g, s)
    BY <1>1, <1>4, HeardIs DEF IsNetconn
  <1>6. s.recvmbox = k.recvmbox /\ s.refused = 0 /\ DOMAIN s = NetFields
    BY <1>4, <1>5 DEF Heard
  <1>7. Local(u, m, p) /\ Alike(k, u)
    <2>1. CASE ~Takes(g)
      <3>1. a = [s EXCEPT !.refused = k.refused]
        BY <1>2, <2>1 DEF recv_tcp
      <3>2. a.refused = k.refused
        BY <1>6, <3>1, NetFieldsAre
      <3> HIDE DEF a
      <3>3. u = [s EXCEPT !.refused = k.refused]
        BY <1>2, <3>1, <3>2
      <3> QED
        BY <1>1, <1>2, <1>3, <3>3, RefusedWaits
    <2>2. CASE Takes(g)
      <3>1. a = [s EXCEPT !.recvmbox = Append(k.recvmbox, k.refused)]
        BY <1>6, <2>2 DEF recv_tcp
      <3>2. a.refused = 0
        BY <1>6, <3>1, NetFieldsAre
      <3> HIDE DEF a
      <3>3. CASE k.fin # "kept"
        <4>1. u = [s EXCEPT !.recvmbox = Append(k.recvmbox, k.refused)]
          BY <3>1, <3>3
        <4>2. /\ Local([s EXCEPT !.recvmbox = Append(k.recvmbox, k.refused)], m, p)
              /\ Alike(k, [s EXCEPT !.recvmbox = Append(k.recvmbox, k.refused)])
          BY <1>1, <1>2, <1>3, <3>3, RefusedTaken
        <4> HIDE DEF u
        <4> QED
          BY <4>1, <4>2
      <3>4. CASE k.fin = "kept"
        <4>1. b = [[s EXCEPT !.recvmbox = Append(k.recvmbox, k.refused)] EXCEPT !.fin = "told"]
          BY <3>1
        <4>2. Local(b, m, p) /\ Alike(k, b)
          BY <1>1, <1>2, <1>3, <3>4, <4>1, RefusedEnds
        <4>3. /\ DOMAIN b = NetFields /\ b.fin = "told" /\ b.rx = s.rx /\ b.pcb = s.pcb
              /\ b.lastErr = s.lastErr /\ s.rx = g.rx /\ s.pcb = g.pcb
          BY <1>5, <1>6, <4>1, NetFieldsAre DEF Heard
        <4>4. b.pcb = "open" /\ b.rx
          BY <1>1, <1>2, <1>3, <4>3, NetFieldsAre DEF IsNetconn
        <4> HIDE DEF b
        <4>5. u = recv_tcp(b, 0)
          BY <3>2, <3>4
        <4>6. IsNetconn(b)
          BY <4>2 DEF Local
        <4>7. Heard(b, SafeErr(b, "ok"))
          BY <4>6, HeardIs DEF IsNetconn
        <4>8. SafeErr(b, "ok").recvmbox = b.recvmbox
          BY <4>7 DEF Heard
        <4>9. CASE Takes(b)
          <5>1. u = [SafeErr(b, "ok") EXCEPT !.recvmbox = Append(b.recvmbox, 0)]
            BY <4>5, <4>8, <4>9 DEF recv_tcp
          <5>2. Local(u, m, p) /\ Alike(b, u)
            BY <4>2, <4>3, <4>4, <5>1, EndTaken
          <5> QED
            BY <4>2, <5>2 DEF Alike
        <4>10. CASE ~Takes(b)
          <5>1. u = [SafeErr(b, "ok") EXCEPT !.fin = "lost"]
            BY <4>5, <4>10 DEF recv_tcp
          <5>2. Local(u, m, p) /\ Alike(b, u)
            BY <4>2, <4>3, <4>4, <5>1, EndLost
          <5> QED
            BY <4>2, <5>2 DEF Alike
        <4> QED
          BY <4>9, <4>10
      <3> QED
        BY <3>3, <3>4
    <2> QED
      BY <2>1, <2>2
  <1> QED
    BY <1>2, <1>7, EventStep

\* recv_udp
LEMMA DatagramStep ==
  ASSUME NetInv, NEW c \in Conns, recv_udp(c)
  PROVE  NetInv'
  <1> DEFINE k == conns[c]
             u == [k EXCEPT !.recvmbox = Append(k.recvmbox, 1)]
  <1>1. k.pcb = "udp" /\ conns' = [conns EXCEPT ![c] = u] /\ UNCHANGED <<callers, tcpipMbox>>
    <2>1. conns = [d \in Conns |-> conns[d]]
      BY DEF NetInv, Sane
    <2> QED
      BY <2>1 DEF recv_udp
  <1>2. Local(k, Mine(conns, callers, c), IsPosted(conns, callers, tcpipMbox, c))
    BY OwnerIs DEF NetInv
  <1>3. Local(u, Mine(conns, callers, c), IsPosted(conns, callers, tcpipMbox, c)) /\ Alike(k, u)
    BY <1>1, <1>2, DatagramKeeps
  <1> QED
    BY <1>1, <1>3, EventStep

\* What a step makes of a netconn and the call of its owner.
Goes(cs, c, k, t) ==
    \E k2, m2 :
       /\ Local(k2, m2, FALSE) /\ Alike(k, k2) /\ SameCall(callers[t], m2)
       /\ conns' = [cs EXCEPT ![c] = k2] /\ callers' = [callers EXCEPT ![t] = m2]

\* do_writemore
LEMMA WriteMoreIs ==
  ASSUME NetInv, NEW c \in Conns, NEW k, NEW t \in Threads, Working(k, callers[t]),
           do_writemore(c, k, t)
  PROVE  Goes(conns, c, k, t)
  <1> DEFINE m == callers[t]
             n == Fits(k, m)
             put == [k EXCEPT !.space = @ - n, !.offset = @ + n]
             done == put.offset = m.size \/ m.dontblock
             F(err) == [m EXCEPT !.err = err, !.len = 0]
  <1>1. /\ IsNetconn(k) /\ IsCall(m) /\ k.space \in Nat /\ k.offset \in Nat /\ m.size \in Nat
        /\ k.offset < m.size /\ k.state = "WRITE"
        /\ (m.dontblock \/ k.pcb = "new" => k.offset = 0)
    BY DEF Working, Busy, IsNetconn, IsCall
  <1>2. n \in Nat /\ n <= k.space /\ k.offset + n <= m.size
    BY <1>1 DEF Fits
  <1> HIDE DEF n
  <1>3. put.offset = k.offset + n /\ put = [k EXCEPT !.space = k.space - n,
          !.offset = k.offset + n]
    BY <1>1, NetFieldsAre DEF IsNetconn
  <1>4. callers = [s \in Threads |-> callers[s]] /\ DOMAIN m = CallFields
    BY <1>1 DEF NetInv, Sane, IsCall
  <1>5. CASE k.pcb = "open" /\ done
             /\ conns' = [conns EXCEPT ![c] = Ended([put EXCEPT !.offset = 0])]
             /\ callers' = [callers EXCEPT ![t] = [m EXCEPT !.queued = m.queued + n,
                                                            !.len = put.offset, !.err = "ok"]]
    <2> DEFINE k2 == Ended([[k EXCEPT !.space = k.space - n,
                       !.offset = k.offset + n] EXCEPT !.offset = 0])
               m2 == [m EXCEPT !.queued = m.queued + n, !.len = k.offset + n, !.err = "ok"]
    <2>1. k.offset + n = m.size \/ m.dontblock
      BY <1>3, <1>5
    <2>2. Local(k2, m2, FALSE) /\ Alike(k, k2) /\ SameCall(m, m2)
      BY <1>2, <2>1, WriteDone
    <2>3. conns' = [conns EXCEPT ![c] = k2] /\ callers' = [callers EXCEPT ![t] = m2]
      BY <1>3, <1>5
    <2> QED
      BY <2>2, <2>3 DEF Goes
  <1>6. CASE k.pcb = "open" /\ ~done /\ conns' = [conns EXCEPT ![c] = put]
             /\ callers' = [callers EXCEPT ![t].queued = m.queued + n]
    <2> DEFINE k2 == [k EXCEPT !.space = k.space - n, !.offset = k.offset + n]
               m2 == [m EXCEPT !.queued = m.queued + n]
    <2>1. k.offset + n < m.size /\ ~m.dontblock
      BY <1>1, <1>2, <1>3, <1>6
    <2>2. Local(k2, m2, FALSE) /\ Alike(k, k2) /\ SameCall(m, m2)
      BY <1>2, <1>6, <2>1, WriteKept
    <2>3. conns' = [conns EXCEPT ![c] = k2] /\ callers' = [callers EXCEPT ![t] = m2]
      BY <1>3, <1>4, <1>6
    <2> QED
      BY <2>2, <2>3 DEF Goes
  <1>7. ASSUME NEW e \in {"soft", "fatal"}, k.offset = 0,
                 conns' = [conns EXCEPT ![c] = Ended(k)],
               callers' = [callers EXCEPT ![t].err = e, ![t].len = 0]
        PROVE  Goes(conns, c, k, t)
    <2> DEFINE m2 == [m EXCEPT !.err = e, !.len = 0]
    <2>1. Local(Ended(k), m2, FALSE) /\ Alike(k, Ended(k)) /\ SameCall(m, m2)
      BY <1>7, WriteFails
    <2>2. callers' = [callers EXCEPT ![t] = m2]
      BY <1>4, <1>7
    <2> QED
      BY <1>7, <2>1, <2>2 DEF Goes
  <1>8. CASE k.pcb = "open" /\ ~m.dontblock /\ conns' = [conns EXCEPT ![c] = k]
               /\ UNCHANGED callers
    <2>1. Local(k, m, FALSE)
      BY <1>8 DEF Working, Local, Blocks
    <2>2. Alike(k, k) /\ SameCall(m, m) /\ callers' = [callers EXCEPT ![t] = m]
      BY <1>4, <1>8 DEF Alike, SameCall
    <2> QED
      BY <1>8, <2>1, <2>2 DEF Goes
  <1>9. Blocked(k, m) => m.dontblock
    BY DEF Blocked
  <1> DEFINE Fails(err) == /\ conns' = [conns EXCEPT ![c] = Ended(k)]
                           /\ callers' = [callers EXCEPT ![t].err = err, ![t].len = 0]
  <1>10. \/ /\ ~Blocked(k, m) /\ k.pcb = "open" /\ UNCHANGED tally
            /\ IF done
               THEN /\ conns' = [conns EXCEPT ![c] = Ended([put EXCEPT !.offset = 0])]
                    /\ callers' = [callers EXCEPT ![t].queued = @ + n, ![t].len = put.offset,
                                                  ![t].err = "ok"]
               ELSE /\ conns' = [conns EXCEPT ![c] = put]
                    /\ callers' = [callers EXCEPT ![t].queued = @ + n]
         \/ Blocked(k, m) /\ k.pcb = "open" /\ UNCHANGED tally /\ Fails("soft")
         \/ k.pcb = "new" /\ UNCHANGED tally /\ Fails("fatal")
         \/ /\ ~Blocked(k, m) /\ k.pcb = "open" /\ OutOfMemory
            /\ IF m.dontblock THEN Fails("soft")
               ELSE conns' = [conns EXCEPT ![c] = k] /\ UNCHANGED callers
    BY Zenon DEF do_writemore, n
  <1>11. CASE k.pcb = "open" /\ IF done
               THEN /\ conns' = [conns EXCEPT ![c] = Ended([put EXCEPT !.offset = 0])]
                    /\ callers' = [callers EXCEPT ![t].queued = @ + n, ![t].len = put.offset,
                                                  ![t].err = "ok"]
               ELSE /\ conns' = [conns EXCEPT ![c] = put]
                    /\ callers' = [callers EXCEPT ![t].queued = @ + n]
    <2> HIDE DEF put
    <2>1. CASE done
      <3>1. conns' = [conns EXCEPT ![c] = Ended([put EXCEPT !.offset = 0])]
        BY <1>11, <2>1
      <3>2. callers' = [callers EXCEPT ![t] = [m EXCEPT !.queued = m.queued + n,
                                                        !.len = put.offset, !.err = "ok"]]
        BY <1>11, <2>1
      <3> QED
        BY <1>5, <1>11, <2>1, <3>1, <3>2
    <2>2. CASE ~done
      BY <1>6, <1>11, <2>2
    <2> QED
      BY <2>1, <2>2
  <1>12. CASE k.pcb = "open" /\ ~Blocked(k, m) /\ (IF m.dontblock THEN Fails("soft")
               ELSE conns' = [conns EXCEPT ![c] = k] /\ UNCHANGED callers)
    <2>1. CASE m.dontblock
      BY <1>1, <1>7, <1>12, <2>1
    <2>2. CASE ~m.dontblock
      BY <1>8, <1>12, <2>2
    <2> QED
      BY <2>1, <2>2
  <1>13. CASE Blocked(k, m) /\ Fails("soft")
    BY <1>1, <1>7, <1>9, <1>13
  <1>14. CASE k.pcb = "new" /\ Fails("fatal")
    BY <1>1, <1>7, <1>14
  <1> QED
    BY <1>10, <1>11, <1>12, <1>13, <1>14

\* do_close_internal for a message that was kept.
LEMMA CloseGoesOn ==
  ASSUME NetInv, NEW c \in Conns, NEW t \in Threads, NEW k, Local(k, callers[t], FALSE),
         k.state = "CLOSE", do_close_internal(conns, c, k, t)
  PROVE  Goes(conns, c, k, t)
  <1> DEFINE m == callers[t]
  <1>1. callers = [s \in Threads |-> callers[s]] /\ IsNetconn(k)
    BY DEF NetInv, Sane, Local
  <1>2. CASE conns' = [conns EXCEPT ![c] = Ended(Gone(k))] /\ callers' = Told(t, "ok")
    <2> DEFINE m2 == [m EXCEPT !.err = "ok"]
    <2>1. Local(Ended(Gone(k)), m2, FALSE) /\ Alike(k, Ended(Gone(k))) /\ SameCall(m, m2)
      BY CloseEnds
    <2>2. callers' = [callers EXCEPT ![t] = m2]
      BY <1>2, ToldIs
    <2> QED
      BY <1>2, <2>1, <2>2 DEF Goes
  <1>3. CASE conns' = [conns EXCEPT ![c] = [k EXCEPT !.rx = FALSE]] /\ UNCHANGED callers
    <2>1. Local([k EXCEPT !.rx = FALSE], m, FALSE) /\ Alike(k, [k EXCEPT !.rx = FALSE])
      BY CloseKeeps
    <2>2. SameCall(m, m) /\ callers' = [callers EXCEPT ![t] = m]
      BY <1>1, <1>3 DEF SameCall
    <2> QED
      BY <1>3, <2>1, <2>2 DEF Goes
  <1> QED
    BY <1>2, <1>3 DEF do_close_internal

\* An event goes on with the message that is kept.
LEMMA GoesStep ==
  ASSUME NetInv, NEW c \in Conns, conns[c].current # Nobody, NEW k, Alike(conns[c], k),
         Goes(conns, c, k, conns[c].current), UNCHANGED tcpipMbox
  PROVE  NetInv'
  <1> DEFINE t == conns[c].current
  <1>1. PICK k2, m2 : /\ Local(k2, m2, FALSE) /\ Alike(k, k2) /\ SameCall(callers[t], m2)
                      /\ conns' = [conns EXCEPT ![c] = k2]
                           /\ callers' = [callers EXCEPT ![t] = m2]
    BY DEF Goes
  <1>2. Alike(conns[c], k2)
    BY <1>1 DEF Alike
  <1> QED
    BY <1>1, <1>2, TellStep

\* poll_tcp and sent_tcp
LEMMA GoOnStep ==
  ASSUME NetInv, NEW c \in Conns, NEW k, Alike(conns[c], k), k.pcb = "open",
         k.current = conns[c].current,
         Local(k, Mine(conns, callers, c), IsPosted(conns, callers, tcpipMbox, c)),
         GoOn(c, k), UNCHANGED tcpipMbox
  PROVE  NetInv'
  <1> DEFINE t == conns[c].current
  <1>1. (k.current # Nobody) <=> KeepsMessage(k)
    BY DEF Local, Busy
  <1>2. CASE k.state \in {"WRITE", "CLOSE"}
    <2>1. t # Nobody
      BY <1>1, <1>2 DEF KeepsMessage
    <2>2. t \in Threads /\ Mine(conns, callers, c) = callers[t] /\ callers[t].pc = "waits"
      BY <2>1, KeptIs
    <2>3. IsPosted(conns, callers, tcpipMbox, c) = FALSE
      <3>1. conns[c].owner = t /\ ~Holds(tcpipMbox, t)
        BY <2>1, KeptIs
      <3> QED
        BY <3>1 DEF IsPosted
    <2>4. Local(k, callers[t], FALSE)
      BY <2>2, <2>3
    <2>5. CASE k.state = "WRITE"
      <3>1. Working(k, callers[t])
        BY <2>4, <2>5 DEF Local, Working, Blocks
      <3>2. do_writemore(c, k, t)
        BY <2>5 DEF GoOn
      <3>3. Goes(conns, c, k, t)
        BY <2>2, <3>1, <3>2, WriteMoreIs
      <3> QED
        BY <2>1, <3>3, GoesStep
    <2>6. CASE k.state = "CLOSE"
      <3>1. do_close_internal(conns, c, k, t)
        BY <2>6 DEF GoOn
      <3>2. Goes(conns, c, k, t)
        BY <2>2, <2>4, <2>6, <3>1, CloseGoesOn
      <3> QED
        BY <2>1, <3>2, GoesStep
    <2> QED
      BY <1>2, <2>5, <2>6
  <1>3. CASE k.state \notin {"WRITE", "CLOSE"}
    <2>1. conns' = [conns EXCEPT ![c] = k] /\ UNCHANGED <<callers, tcpipMbox>>
      BY <1>3 DEF GoOn
    <2> QED
      BY <2>1, EventStep
  <1> QED
    BY <1>2, <1>3

\* poll_tcp
LEMMA PollStep ==
  ASSUME NetInv, NEW c \in Conns, poll_tcp(c)
  PROVE  NetInv'
  <1>1. Local(conns[c], Mine(conns, callers, c), IsPosted(conns, callers, tcpipMbox, c))
    BY OwnerIs DEF NetInv
  <1>2. Alike(conns[c], conns[c])
    BY DEF Alike
  <1>3. conns[c].pcb = "open" /\ GoOn(c, conns[c]) /\ UNCHANGED tcpipMbox
    BY DEF poll_tcp
  <1> QED
    BY <1>1, <1>2, <1>3, GoOnStep

\* sent_tcp
LEMMA SentStep ==
  ASSUME NetInv, NEW c \in Conns, sent_tcp(c)
  PROVE  NetInv'
  <1> DEFINE u(s) == [conns[c] EXCEPT !.space = s]
  <1>1. Local(conns[c], Mine(conns, callers, c), IsPosted(conns, callers, tcpipMbox, c))
        /\ IsNetconn(conns[c])
    BY OwnerIs DEF NetInv
  <1>2. PICK s \in (conns[c].space + 1) .. SndBuf : GoOn(c, u(s))
    BY DEF sent_tcp
  <1>3. conns[c].pcb = "open" /\ UNCHANGED tcpipMbox /\ s \in Nat
    BY <1>1, <1>2 DEF sent_tcp, IsNetconn
  <1>4. conns[c].used
    BY <1>1, <1>3 DEF Local, Shape
  <1>5. u(s).pcb = "open" /\ u(s).current = conns[c].current
    BY <1>1, <1>3, NetFieldsAre DEF IsNetconn
  <1>6. Local(u(s), Mine(conns, callers, c), IsPosted(conns, callers, tcpipMbox, c))
        /\ Alike(conns[c], u(s))
    BY <1>1, <1>3, <1>4, SpaceKeeps
  <1> HIDE DEF u
  <1> QED
    BY <1>2, <1>3, <1>5, <1>6, GoOnStep

\* accept_function
LEMMA AcceptedStep ==
  ASSUME NetInv, NEW c \in Conns, NEW n \in Conns, accept_function(c, n)
  PROVE  NetInv'
  <1> DEFINE k == conns[c]
             q == Append(k.acceptmbox, n)
             u == [k EXCEPT !.acceptmbox = q]
             o == [Fresh("TCP", FALSE) EXCEPT !.pcb = "open"]
             C2 == [conns EXCEPT ![c] = u, ![n] = o]
             m == Mine(conns, callers, c)
             p == IsPosted(conns, callers, tcpipMbox, c)
  <1>1. /\ Sane(conns, callers, tcpipMbox) /\ conns = [d \in Conns |-> conns[d]]
        /\ callers = [s \in Threads |-> callers[s]] /\ Unaccepted(conns) /\ Mailed(callers,
             tcpipMbox)
    BY DEF NetInv, Sane
  <1>2. IsNetconn(k) /\ Local(k, m, p)
    BY <1>1, OwnerIs
  <1>3. k.pcb = "listen" /\ ~conns[n].used /\ UNCHANGED <<callers, tcpipMbox>>
    BY DEF accept_function
  <1>4. k.used /\ c # n
    BY <1>2, <1>3 DEF Local, Shape
  <1>5. conns' = C2
    BY <1>1 DEF accept_function
  <1>6. conns[n] = Unused /\ Unused.owner = Nobody
    <2>1. Local(conns[n], Mine(conns, callers, n), IsPosted(conns, callers, tcpipMbox, n))
      BY <1>1, OwnerIs
    <2> QED
      BY <1>3, <2>1 DEF Local, Shape, Unused, Fresh
  <1>7. q \in Seq(Conns) /\ Once(k.acceptmbox) /\ ~Holds(k.acceptmbox, n)
    BY <1>1, <1>2, <1>3 DEF Unaccepted, IsNetconn
  <1>8. /\ Once(q) /\ Holds(q, n) /\ \A x : x # n => (Holds(q, x) <=> Holds(k.acceptmbox, x))
    BY <1>2, <1>7, MailPut DEF IsNetconn
  <1> HIDE DEF q
  <1>9. Local(u, m, p) /\ Owned(k, u)
    BY <1>2, <1>3, <1>7, BoxKeeps
  <1>10. u.acceptmbox = q
    BY <1>2, NetFieldsAre DEF IsNetconn
  <1>11. o.owner = Nobody /\ o.acceptmbox = <<>> /\ o.used
    BY DEF Fresh
  <1>12. C2[c] = u /\ C2[n] = o /\ C2 = [d \in Conns |-> C2[d]] /\ \A d \in Conns \ {c,
           n} : C2[d] = conns[d]
    BY <1>1, <1>4
  <1>13. Local(o, Resting, FALSE)
    BY OpenComes
  <1> HIDE DEF u, o, C2
  <1>14. Unaccepted(C2)
    <2>1. \A d : ~Holds(<<>>, d)
      BY DEF Holds
    <2>2. Once(<<>>)
      BY DEF Once
    <2>3. \A e \in Conns : ~Holds(conns[e].acceptmbox, n)
      BY <1>1, <1>3 DEF Unaccepted
    <2>4. \A d \in Conns \ {c, n} : C2[d].acceptmbox = conns[d].acceptmbox
      BY <1>12
    <2>5. \A d \in Conns : Once(C2[d].acceptmbox)
      BY <1>1, <1>8, <1>10, <1>11, <1>12, <2>2 DEF Unaccepted
    <2>6. \A e, d \in Conns : Holds(C2[e].acceptmbox, d) => (e = c /\ d = n)
            \/ Holds(conns[e].acceptmbox, d)
      BY <1>8, <1>10, <1>11, <1>12, <2>1, <2>4
    <2>7. \A d \in Conns : d # n /\ conns[d].used => C2[d].used /\ C2[d].owner = conns[d].owner
      BY <1>9, <1>12 DEF Owned
    <2>8. ASSUME NEW e \in Conns, NEW d \in Conns, Holds(C2[e].acceptmbox, d)
          PROVE  /\ d # e /\ C2[d].used /\ C2[d].owner = Nobody
                 /\ \A f \in Conns : Holds(C2[f].acceptmbox, d) => f = e
      <3>1. CASE e = c /\ d = n
        BY <1>4, <1>11, <1>12, <2>3, <2>6, <3>1
      <3>2. CASE Holds(conns[e].acceptmbox, d)
        <4>1. d # n /\ d # e /\ conns[d].used /\ conns[d].owner = Nobody
              /\ \A f \in Conns : Holds(conns[f].acceptmbox, d) => f = e
          BY <1>1, <2>3, <3>2 DEF Unaccepted
        <4> QED
          BY <2>6, <2>7, <4>1
      <3> QED
        BY <2>6, <2>8, <3>1, <3>2
    <2> QED
      BY <2>5, <2>8 DEF Unaccepted
  <1>15. LocalOn(C2, callers, tcpipMbox, {c, n})
    <2>1. Mine(C2, callers, c) = m /\ IsPosted(C2, callers, tcpipMbox, c) = p
      BY <1>9, <1>12 DEF Mine, IsPosted, Owned
    <2>2. Mine(C2, callers, n) = Resting /\ IsPosted(C2, callers, tcpipMbox, n) = FALSE
      BY <1>11, <1>12 DEF Mine, IsPosted, Waits, Resting
    <2>3. Local(C2[c], Mine(C2, callers, c), IsPosted(C2, callers, tcpipMbox, c))
      BY <1>9, <1>12, <2>1
    <2>4. Local(C2[n], Mine(C2, callers, n), IsPosted(C2, callers, tcpipMbox, n))
      BY <1>12, <1>13, <2>2
    <2> QED
      BY <2>3, <2>4 DEF LocalOn
  <1>16. LeavesAlone(conns, callers, tcpipMbox, C2, callers, tcpipMbox, {c, n}, Nobody)
    BY <1>1, <1>6, <1>9, <1>12, NobodyElse DEF LeavesAlone
  <1>17. {c, n} \in SUBSET Conns /\ Nobody \in Threads \cup {Nobody} /\ Nobody \notin Threads
    BY NobodyElse
  <1>18. Sane(C2, callers, tcpipMbox)
    BY <1>1, <1>14, <1>15, <1>16, <1>17, Frame
  <1> QED
    BY <1>3, <1>5, <1>18 DEF NetInv

-----------------------------------------------------------------------------
(* The threads *)

\* netconn_new
LEMMA NewStep ==
  ASSUME NetInv, NEW t \in Threads, NEW c \in Conns, NEW type \in Types,
           NEW nonblocking \in BOOLEAN,
         netconn_new(t, c, type, nonblocking)
  PROVE  NetInv'
  <1> DEFINE u == [Fresh(type, nonblocking) EXCEPT !.owner = t]
             w == [[Resting EXCEPT !.conn = c, !.op = "newconn"] EXCEPT !.pc = "waits",
                    !.err = "unset"]
             C2 == [conns EXCEPT ![c] = u]
             D2 == [callers EXCEPT ![t] = w]
             M2 == Append(tcpipMbox, t)
  <1>1. /\ Sane(conns, callers, tcpipMbox) /\ conns = [d \in Conns |-> conns[d]]
        /\ callers = [s \in Threads |-> callers[s]] /\ Unaccepted(conns) /\ Mailed(callers,
             tcpipMbox)
    BY DEF NetInv, Sane
  <1>2. callers[t].pc = "idle" /\ ~conns[c].used /\ conns' = C2 /\ callers' = D2
          /\ tcpipMbox' = M2
    BY DEF netconn_new, Post
  <1>3. callers[t].conn = Nobody /\ ~Holds(tcpipMbox, t)
    BY <1>1, <1>2, IdleIs
  <1>4. conns[c].owner = Nobody
    <2>1. Local(conns[c], Mine(conns, callers, c), IsPosted(conns, callers, tcpipMbox, c))
      BY <1>1, OwnerIs
    <2> QED
      BY <1>2, <2>1, ZenonT(40) DEF Local, Shape, Unused, Fresh
  <1>5. u.owner = t /\ u.acceptmbox = <<>>
    BY DEF Fresh
  <1>6. w.pc = "waits" /\ w.conn = c /\ w.op = "newconn"
    BY DEF Resting
  <1>7. Local(u, w, TRUE)
    BY NewComes, NetconnAssumption
  <1>8. /\ C2[c] = u /\ C2 = [d \in Conns |-> C2[d]] /\ \A d \in Conns \ {c} : C2[d] = conns[d]
        /\ D2[t] = w /\ D2 = [s \in Threads |-> D2[s]]
             /\ \A s \in Threads \ {t} : D2[s] = callers[s]
    BY <1>1
  <1>9. Mailed(D2, M2)
    BY <1>1, <1>3, <1>6, MailedStill DEF Waits
  <1>10. Holds(M2, t) /\ \A s \in Threads \ {t} : Holds(M2, s) <=> Holds(tcpipMbox, s)
    BY <1>1, <1>3, MailPut DEF Mailed
  <1> HIDE DEF u, w, C2, D2, M2
  <1>11. Unaccepted(C2)
    <2>1. \A d \in Conns : Holds(conns[d].acceptmbox, c) => FALSE
      BY <1>1, <1>2 DEF Unaccepted
    <2>2. Once(<<>>) /\ \A d : ~Holds(<<>>, d)
      BY DEF Once, Holds
    <2> QED
      BY <1>1, <1>5, <1>8, <2>1, <2>2 DEF Unaccepted
  <1>12. LocalOn(C2, D2, M2, {c})
    <2>1. Mine(C2, D2, c) = w
      BY <1>5, <1>6, <1>8, NobodyElse DEF Mine
    <2>2. IsPosted(C2, D2, M2, c) = TRUE
      BY <1>5, <1>6, <1>8, <1>10, <2>1 DEF IsPosted, Waits
    <2>3. Local(C2[c], Mine(C2, D2, c), IsPosted(C2, D2, M2, c))
      BY <1>7, <1>8, <2>1, <2>2
    <2> QED
      BY <2>3 DEF LocalOn
  <1>13. LeavesAlone(conns, callers, tcpipMbox, C2, D2, M2, {c}, t)
    BY <1>3, <1>4, <1>6, <1>8, <1>10 DEF LeavesAlone
  <1>14. CallOK(C2, t, D2[t])
    <2>1. u.used
      BY DEF u, Fresh
    <2> QED
      BY <1>5, <1>6, <1>8, <2>1 DEF CallOK, Ops
  <1>15. {c} \in SUBSET Conns /\ t \in Threads \cup {Nobody}
    OBVIOUS
  <1>16. Sane(C2, D2, M2)
    BY <1>1, <1>9, <1>11, <1>12, <1>13, <1>14, <1>15, Frame
  <1> QED
    BY <1>2, <1>16 DEF NetInv

\* A call that is one message.
LEMMA AskStep ==
  ASSUME NetInv, NEW t \in Threads, NEW c \in Conns, NEW w, callers[t].pc = "idle",
         conns[c].used, conns[c].owner = t, UNCHANGED conns,
         callers' = [callers EXCEPT ![t] = w], tcpipMbox' = Append(tcpipMbox, t),
         IsCall(w), w.pc = "waits", w.conn = c, w.op \in Ops \ {"newconn", "recv"},
         w.op = "write" => conns[c].type = "TCP" /\ w.size > 0 /\ w.queued = 0
  PROVE  NetInv'
  <1>1. Sane(conns, callers, tcpipMbox)
    BY DEF NetInv
  <1>2. callers[t].conn \in {c, Nobody} /\ ~Holds(tcpipMbox, t)
    BY <1>1, IdleIs
  <1>3. Local(conns[c], Resting, FALSE)
    BY <1>1, IdleOwner
  <1>4. Local(conns[c], w, TRUE)
    BY <1>3, AskKeeps
  <1>5. CallOK(conns, t, w)
    BY DEF CallOK
  <1>6. Waits(w)
    BY DEF Waits
  <1>7. Sane(conns, [callers EXCEPT ![t] = w], Append(tcpipMbox, t))
    BY <1>1, <1>2, <1>4, <1>5, <1>6, PostFrame
  <1> QED
    BY <1>7 DEF NetInv

\* A call that is one message without data.
LEMMA PlainStep ==
  ASSUME NetInv, NEW t \in Threads, NEW c \in Conns, NEW op \in Ops \ {"newconn", "recv",
           "write"},
         Asks(t, c, ApiMsg(c, op))
  PROVE  NetInv'
  <1> DEFINE w == [ApiMsg(c, op) EXCEPT !.pc = "waits", !.err = "unset"]
  <1>1. /\ w.pc = "waits" /\ w.conn = c /\ w.op = op /\ w.err = "unset" /\ w.size = 0
             /\ w.len = 0
        /\ w.queued = 0 /\ w.dontblock = FALSE /\ w.dontblock \in BOOLEAN /\ w.got = 0
        /\ DOMAIN w = CallFields
    BY CallFieldsAre DEF ApiMsg, Resting
  <1>2. /\ callers[t].pc = "idle" /\ conns[c].used /\ conns[c].owner = t /\ UNCHANGED conns
        /\ callers' = [callers EXCEPT ![t] = w] /\ tcpipMbox' = Append(tcpipMbox, t)
    BY DEF Asks, Post
  <1> HIDE DEF w
  <1>3. IsCall(w)
    BY <1>1 DEF IsCall
  <1> QED
    BY <1>1, <1>2, <1>3, AskStep

\* netconn_write
LEMMA WriteStep ==
  ASSUME NetInv, NEW t \in Threads, NEW c \in Conns, netconn_write(t, c)
  PROVE  NetInv'
  <1>1. PICK s \in 1 .. MaxWrite, d \in BOOLEAN :
           Asks(t, c, [ApiMsg(c, "write") EXCEPT !.size = s, !.len = s, !.dontblock = d])
    BY DEF netconn_write
  <1>2. conns[c].type = "TCP" /\ s \in Nat /\ s > 0 /\ "write" \in Ops
    BY NetconnAssumption DEF netconn_write, Ops
  <1> DEFINE w == [[ApiMsg(c, "write") EXCEPT !.size = s, !.len = s, !.dontblock = d]
                   EXCEPT !.pc = "waits", !.err = "unset"]
  <1>3. /\ w.pc = "waits" /\ w.conn = c /\ w.op = "write" /\ w.err = "unset" /\ w.size = s
             /\ w.len = s
        /\ w.queued = 0 /\ w.dontblock = d /\ w.dontblock \in BOOLEAN /\ w.got = 0
        /\ DOMAIN w = CallFields
    BY CallFieldsAre DEF ApiMsg, Resting
  <1>4. /\ callers[t].pc = "idle" /\ conns[c].used /\ conns[c].owner = t /\ UNCHANGED conns
        /\ callers' = [callers EXCEPT ![t] = w] /\ tcpipMbox' = Append(tcpipMbox, t)
    BY <1>1 DEF Asks, Post
  <1> HIDE DEF w
  <1>5. IsCall(w)
    BY <1>2, <1>3 DEF IsCall
  <1> QED
    BY <1>2, <1>3, <1>4, <1>5, AskStep

\* The calls that are one message.
LEMMA AsksStep ==
  ASSUME NetInv, NEW t \in Threads, NEW c \in Conns,
         \/ \E op \in Plain : netconn_plain(t, c, op)
         \/ netconn_send(t, c) \/ netconn_join_leave_group(t, c) \/ netconn_write(t, c)
         \/ netconn_close(t, c) \/ netconn_delete(t, c)
  PROVE  NetInv'
  <1>1. {"send", "group", "close", "delete"} \subseteq Ops \ {"newconn", "recv", "write"}
        /\ Plain \subseteq Ops \ {"newconn", "recv", "write"}
    BY DEF Ops, Plain
  <1>2. CASE netconn_write(t, c)
    BY <1>2, WriteStep
  <1>3. CASE \E op \in Ops \ {"newconn", "recv", "write"} : Asks(t, c, ApiMsg(c, op))
    BY <1>3, PlainStep
  <1> QED
    BY <1>1, <1>2, <1>3 DEF netconn_plain, netconn_send, netconn_join_leave_group,
         netconn_close,
       netconn_delete

\* A thread in a call whose message is not in the mailbox of the stack.
LEMMA QuietIs ==
  ASSUME NetInv, NEW t \in Threads, callers[t].pc # "idle",
         callers[t].pc = "waits" => conns[callers[t].conn].sem # 0
  PROVE  LET c == callers[t].conn IN
         /\ c \in Conns /\ conns[c].used /\ conns[c].owner = t /\ ~Holds(tcpipMbox, t)
         /\ IsNetconn(conns[c]) /\ Local(conns[c], callers[t], FALSE) /\ CallOK(conns, t,
              callers[t])
  <1> DEFINE c == callers[t].conn
             p == IsPosted(conns, callers, tcpipMbox, c)
  <1>1. /\ Sane(conns, callers, tcpipMbox) /\ Mailed(callers, tcpipMbox)
    BY DEF NetInv, Sane
  <1>2. c \in Conns /\ conns[c].used /\ conns[c].owner = t /\ Mine(conns, callers,
          c) = callers[t]
        /\ CallOK(conns, t, callers[t])
    BY <1>1, CallIs
  <1>3. Local(conns[c], callers[t], p)
    BY <1>1, <1>2 DEF Sane
  <1>4. p <=> Waits(callers[t]) /\ Holds(tcpipMbox, t)
    BY <1>2 DEF IsPosted
  <1>5. ~p
    <2>1. CASE callers[t].pc = "waits"
      <3>1. Woken(conns[c], callers[t], p) /\ conns[c].sem # 0
        BY <1>3, <2>1 DEF Local
      <3> QED
        BY <3>1 DEF Woken
    <2>2. CASE callers[t].pc # "waits"
      BY <1>4, <2>2 DEF Waits
    <2> QED
      BY <2>1, <2>2
  <1>6. ~Holds(tcpipMbox, t)
    BY <1>1, <1>4, <1>5 DEF Mailed
  <1>7. p = FALSE
    BY <1>5 DEF IsPosted
  <1>8. Local(conns[c], callers[t], FALSE)
    BY <1>3, <1>7
  <1> QED
    BY <1>2, <1>6, <1>8 DEF Local

\* netconn_recv_data and netconn_accept up to the fetch.
LEMMA LookStep ==
  ASSUME NetInv, NEW t \in Threads, NEW c \in Conns, NEW box \in {"recv", "accept"}, Look(t,
           c, box)
  PROVE  NetInv'
  <1> DEFINE w == [Resting EXCEPT !.pc = "looked", !.conn = c, !.op = box]
  <1>1. /\ callers[t].pc = "idle" /\ conns[c].used /\ conns[c].owner = t
        /\ box \in conns[c].boxes /\ conns[c].lastErr # "fatal"
        /\ callers' = [callers EXCEPT ![t] = w] /\ UNCHANGED <<conns, tcpipMbox>>
    BY DEF Look
  <1>2. Sane(conns, callers, tcpipMbox) /\ conns = [d \in Conns |-> conns[d]]
    BY DEF NetInv, Sane
  <1>3. callers[t].conn \in {c, Nobody} /\ ~Holds(tcpipMbox, t)
    BY <1>1, <1>2, IdleIs
  <1>4. Local(conns[c], Resting, FALSE)
    BY <1>1, <1>2, IdleOwner
  <1>5. /\ w.pc = "looked" /\ w.conn = c /\ w.op = box /\ w.err = "unset" /\ w.size = 0
             /\ w.len = 0
        /\ w.queued = 0 /\ w.dontblock = FALSE /\ w.dontblock \in BOOLEAN /\ w.got = 0
        /\ DOMAIN w = CallFields
    BY CallFieldsAre DEF Resting
  <1> HIDE DEF w
  <1>6. IsCall(w)
    BY <1>5 DEF IsCall, Ops
  <1>7. Local(conns[c], w, FALSE)
    BY <1>1, <1>4, <1>5, <1>6, LookKeeps
  <1>8. CallOK(conns, t, w)
    BY <1>1, <1>5 DEF CallOK
  <1>9. Alike(conns[c], conns[c]) /\ [conns EXCEPT ![c] = conns[c]] = conns
    BY <1>2 DEF Alike
  <1>10. w.pc # "idle"
    BY <1>5
  <1>11. Sane([conns EXCEPT ![c] = conns[c]], [callers EXCEPT ![t] = w], tcpipMbox)
    BY <1>1, <1>2, <1>3, <1>5, <1>7, <1>8, <1>9, <1>10, ThreadFrame
  <1> QED
    BY <1>1, <1>9, <1>11 DEF NetInv

\* A step of a thread in a call and its netconn.
LEMMA ThreadStep ==
  ASSUME NetInv, NEW t \in Threads, callers[t].pc # "idle", ~Holds(tcpipMbox, t), NEW k2,
           NEW m2,
         Alike(conns[callers[t].conn], k2), Local(k2, m2, FALSE),
         m2 = Resting \/ (m2.pc # "idle" /\ m2.conn = callers[t].conn /\ CallOK(conns, t, m2)),
         conns' = [conns EXCEPT ![callers[t].conn] = k2], callers' = [callers EXCEPT ![t] = m2],
         UNCHANGED tcpipMbox
  PROVE  NetInv'
  <1> DEFINE c == callers[t].conn
  <1>1. c \in Conns /\ conns[c].owner = t /\ callers[t].conn \in {c, Nobody}
    BY CallIs DEF NetInv
  <1>2. Sane([conns EXCEPT ![c] = k2], [callers EXCEPT ![t] = m2], tcpipMbox)
    BY <1>1, ThreadFrame DEF NetInv
  <1> QED
    BY <1>2 DEF NetInv

\* netconn_recv_data, the fetch
LEMMA FetchDataStep ==
  ASSUME NetInv, NEW t \in Threads, FetchData(t)
  PROVE  NetInv'
  <1> DEFINE c == callers[t].conn
             k == conns[c]
             m == callers[t]
             k2 == [k EXCEPT !.recvmbox = Tail(k.recvmbox)]
             m2 == [m EXCEPT !.pc = "taken", !.got = Head(k.recvmbox)]
  <1>1. /\ m.pc = "looked" /\ m.op = "recv" /\ k.recvmbox # <<>> /\ UNCHANGED tcpipMbox
        /\ callers' = [callers EXCEPT ![t] = IF k.type = "UDP" THEN Resting
                                             ELSE [@ EXCEPT !.pc = "taken",
                                               !.got = Head(k.recvmbox)]]
    BY DEF FetchData
  <1>2. /\ c \in Conns /\ k.used /\ k.owner = t /\ ~Holds(tcpipMbox, t) /\ IsNetconn(k)
        /\ CallOK(conns, t, m)
    BY <1>1, QuietIs
  <1>3. Local(k, m, FALSE)
    BY <1>1, QuietIs
  <1>4. conns = [d \in Conns |-> conns[d]]
    BY DEF NetInv, Sane
  <1>5. conns' = [conns EXCEPT ![c] = k2]
    BY <1>2, <1>4 DEF FetchData
  <1>6. CASE k.type = "UDP"
    <2>1. Local(k2, Resting, FALSE) /\ Alike(k, k2)
      BY <1>1, <1>3, <1>6, FetchDatagram
    <2>2. callers' = [callers EXCEPT ![t] = Resting]
      BY <1>1, <1>6
    <2> HIDE DEF k2
    <2> QED
      BY <1>1, <1>2, <1>5, <2>1, <2>2, ThreadStep
  <1>7. CASE k.type = "TCP"
    <2>1. Local(k2, m2, FALSE) /\ Alike(k, k2)
      BY <1>1, <1>3, <1>7, FetchKeeps
    <2>2. callers' = [callers EXCEPT ![t] = m2]
      BY <1>1, <1>7
    <2>3. m2.pc = "taken" /\ m2.conn = c /\ m2.op = "recv"
      BY <1>1, <1>3, CallFieldsAre DEF Local, IsCall
    <2> HIDE DEF k2, m2
    <2>4. CallOK(conns, t, m2)
      BY <1>2, <1>7, <2>3 DEF CallOK
    <2> QED
      BY <1>1, <1>2, <1>5, <2>1, <2>2, <2>3, <2>4, ThreadStep
  <1> QED
    BY <1>2, <1>6, <1>7 DEF IsNetconn

\* netconn_recv_data, the message
LEMMA AskRecvStep ==
  ASSUME NetInv, NEW t \in Threads, AskRecv(t)
  PROVE  NetInv'
  <1> DEFINE c == callers[t].conn
             m == callers[t]
             m2 == [m EXCEPT !.pc = "waits", !.err = "unset"]
  <1>1. /\ m.pc = "taken" /\ UNCHANGED conns /\ callers' = [callers EXCEPT ![t] = m2]
        /\ tcpipMbox' = Append(tcpipMbox, t)
    BY DEF AskRecv, Post
  <1>2. /\ c \in Conns /\ conns[c].used /\ conns[c].owner = t /\ ~Holds(tcpipMbox, t)
        /\ CallOK(conns, t, m)
    BY <1>1, QuietIs
  <1>3. Local(conns[c], m, FALSE) /\ m.op = "recv"
    BY <1>1, <1>2, QuietIs DEF CallOK
  <1>4. m2.pc = "waits" /\ m2.conn = c /\ m2.op = "recv"
    BY <1>3, CallFieldsAre DEF Local, IsCall
  <1>5. Local(conns[c], m2, TRUE)
    BY <1>1, <1>3, TellKeeps
  <1> HIDE DEF m2
  <1>6. CallOK(conns, t, m2) /\ Waits(m2)
    BY <1>1, <1>2, <1>3, <1>4 DEF CallOK, Ops, Waits
  <1>7. m.conn \in {c, Nobody} /\ Sane(conns, callers, tcpipMbox)
    BY DEF NetInv
  <1>8. Sane(conns, [callers EXCEPT ![t] = m2], Append(tcpipMbox, t))
    BY <1>2, <1>4, <1>5, <1>6, <1>7, PostFrame
  <1> QED
    BY <1>1, <1>8 DEF NetInv

\* netconn_accept, the fetch
LEMMA FetchConnStep ==
  ASSUME NetInv, NEW t \in Threads, FetchConn(t)
  PROVE  NetInv'
  <1> DEFINE c == callers[t].conn
             k == conns[c]
             q == Tail(k.acceptmbox)
             d == Head(k.acceptmbox)
             u == [k EXCEPT !.acceptmbox = q]
             o == [conns[d] EXCEPT !.owner = t]
             C2 == [conns EXCEPT ![c] = u, ![d] = o]
             D2 == [callers EXCEPT ![t] = Resting]
             M == tcpipMbox
  <1>1. callers[t].pc = "looked" /\ callers[t].op = "accept" /\ k.acceptmbox # <<>>
        /\ callers' = D2 /\ UNCHANGED tcpipMbox
    BY DEF FetchConn
  <1>2. /\ Sane(conns, callers, M) /\ conns = [e \in Conns |-> conns[e]]
        /\ callers = [s \in Threads |-> callers[s]] /\ Unaccepted(conns) /\ Mailed(callers, M)
    BY DEF NetInv, Sane
  <1>3. c \in Conns /\ k.used /\ k.owner = t /\ ~Holds(M, t) /\ IsNetconn(k)
    BY <1>1, QuietIs
  <1>4. Local(k, callers[t], FALSE)
    BY <1>1, QuietIs
  <1>5. /\ d \in Conns /\ q \in Seq(Conns) /\ Holds(k.acceptmbox, d) /\ ~Holds(q, d) /\ Once(q)
        /\ \A x : x # d => (Holds(q, x) <=> Holds(k.acceptmbox, x))
    <2>1. k.acceptmbox \in Seq(Conns) /\ Once(k.acceptmbox)
      BY <1>2, <1>3, SMTT(30) DEF IsNetconn, Unaccepted
    <2> QED
      BY <1>1, <2>1, MailTaken
  <1>6. d # c /\ conns[d].used /\ conns[d].owner = Nobody
        /\ \A e \in Conns : Holds(conns[e].acceptmbox, d) => e = c
    BY <1>2, <1>3, <1>5, ZenonT(40) DEF Unaccepted
  <1>7. conns' = C2
    BY <1>1, <1>2, <1>3, <1>5, <1>6 DEF FetchConn
  <1> HIDE DEF q, d
  <1>8. Local(u, Resting, FALSE) /\ Owned(k, u) /\ u.acceptmbox = q
    <2>1. Local(u, Resting, FALSE) /\ Owned(k, u)
      BY <1>1, <1>4, <1>5, AcceptKeeps
    <2>2. u.acceptmbox = q
      BY <1>3, NetFieldsAre DEF IsNetconn
    <2> QED
      BY <2>1, <2>2
  <1>9. Local(o, Resting, FALSE) /\ Kin(conns[d], o) /\ o.owner = t
    <2>1. Mine(conns, callers, d) = Resting /\ IsNetconn(conns[d])
      BY <1>2, <1>5, <1>6, OwnerIs DEF Mine
    <2>2. IsPosted(conns, callers, M, d) = FALSE
      BY <2>1 DEF IsPosted, Waits, Resting
    <2>3. Local(conns[d], Mine(conns, callers, d), IsPosted(conns, callers, M, d))
      BY <1>5 DEF NetInv, Sane
    <2>4. Local(conns[d], Resting, FALSE)
      BY <2>1, <2>2, <2>3
    <2>5. Local(o, Resting, FALSE) /\ Kin(conns[d], o)
      BY <1>6, <2>4, OwnerKeeps
    <2>6. o.owner = t
      BY <2>1, NetFieldsAre DEF IsNetconn
    <2> QED
      BY <2>5, <2>6
  <1>10. /\ C2[c] = u /\ C2[d] = o /\ C2 = [e \in Conns |-> C2[e]]
         /\ \A e \in Conns \ {c, d} : C2[e] = conns[e]
         /\ D2[t] = Resting /\ D2 = [s \in Threads |-> D2[s]]
              /\ \A s \in Threads \ {t} : D2[s] = callers[s]
    BY <1>2, <1>3, <1>5, <1>6
  <1>11. Mailed(D2, M)
    BY <1>2, <1>3, MailedStill
  <1> HIDE DEF u, o, C2, D2
  <1>12. Resting.conn = Nobody /\ Resting.pc = "idle"
    BY DEF Resting
  <1>13. Unaccepted(C2)
    <2>1. \A e, x \in Conns : Holds(C2[e].acceptmbox, x) => Holds(conns[e].acceptmbox, x)
            /\ x # d
      <3>1. ASSUME NEW e \in Conns, NEW x \in Conns, Holds(C2[e].acceptmbox, x)
            PROVE  Holds(conns[e].acceptmbox, x) /\ x # d
        <4>1. CASE e = c
          BY <1>5, <1>8, <1>10, <3>1, <4>1
        <4>2. CASE e # c
          <5>1. C2[e].acceptmbox = conns[e].acceptmbox
            BY <1>9, <1>10, <4>2 DEF Kin
          <5> QED
            BY <1>6, <3>1, <4>2, <5>1
        <4> QED
          BY <4>1, <4>2
      <3> QED
        BY <3>1
    <2>2. \A e \in Conns : Once(C2[e].acceptmbox)
      <3>1. ASSUME NEW e \in Conns, e # c PROVE C2[e].acceptmbox = conns[e].acceptmbox
        BY <1>9, <1>10, <3>1 DEF Kin
      <3> QED
        BY <1>2, <1>5, <1>8, <1>10, <3>1 DEF Unaccepted
    <2>3. \A x \in Conns : x # d => C2[x].used = conns[x].used /\ C2[x].owner = conns[x].owner
      BY <1>8, <1>10 DEF Owned
    <2> QED
      BY <1>2, <2>1, <2>2, <2>3 DEF Unaccepted
  <1>14. LocalOn(C2, D2, M, {c, d})
    <2>1. Mine(C2, D2, c) = Resting /\ Mine(C2, D2, d) = Resting
      BY <1>10, <1>12, <1>3, <1>8, <1>9 DEF Mine, Owned
    <2>2. IsPosted(C2, D2, M, c) = FALSE /\ IsPosted(C2, D2, M, d) = FALSE
      BY <1>12, <2>1 DEF IsPosted, Waits
    <2>3. Local(C2[c], Mine(C2, D2, c), IsPosted(C2, D2, M, c))
      BY <1>8, <1>10, <2>1, <2>2
    <2>4. Local(C2[d], Mine(C2, D2, d), IsPosted(C2, D2, M, d))
      BY <1>9, <1>10, <2>1, <2>2
    <2> QED
      BY <2>3, <2>4 DEF LocalOn
  <1>15. LeavesAlone(conns, callers, M, C2, D2, M, {c, d}, t)
    BY <1>6, <1>8, <1>10, <1>12 DEF LeavesAlone
  <1>16. CallOK(C2, t, D2[t])
    BY <1>10, <1>12 DEF CallOK
  <1>17. {c, d} \in SUBSET Conns /\ t \in Threads \cup {Nobody}
    BY <1>3, <1>5
  <1>18. Sane(C2, D2, M)
    BY <1>2, <1>11, <1>13, <1>14, <1>15, <1>16, <1>17, Frame
  <1> QED
    BY <1>1, <1>7, <1>18 DEF NetInv

\* netconn_free
LEMMA FreeStep ==
  ASSUME NetInv, NEW t \in Threads, callers[t].pc # "idle", ~Holds(tcpipMbox, t),
         conns' = [conns EXCEPT ![callers[t].conn] = Unused],
         callers' = [callers EXCEPT ![t] = Resting], UNCHANGED tcpipMbox
  PROVE  NetInv'
  <1> DEFINE c == callers[t].conn
             C2 == [conns EXCEPT ![c] = Unused]
             D2 == [callers EXCEPT ![t] = Resting]
             M == tcpipMbox
  <1>1. /\ Sane(conns, callers, M) /\ conns = [e \in Conns |-> conns[e]]
        /\ callers = [s \in Threads |-> callers[s]] /\ Unaccepted(conns) /\ Mailed(callers, M)
    BY DEF NetInv, Sane
  <1>2. c \in Conns /\ conns[c].used /\ conns[c].owner = t
    BY <1>1, CallIs
  <1>3. /\ C2[c] = Unused /\ C2 = [e \in Conns |-> C2[e]]
             /\ \A e \in Conns \ {c} : C2[e] = conns[e]
        /\ D2[t] = Resting /\ D2 = [s \in Threads |-> D2[s]]
             /\ \A s \in Threads \ {t} : D2[s] = callers[s]
    BY <1>1, <1>2
  <1>4. Mailed(D2, M)
    BY <1>1, MailedStill
  <1> HIDE DEF C2, D2
  <1>5. Unused.owner = Nobody /\ Unused.acceptmbox = <<>> /\ Resting.conn = Nobody
          /\ Resting.pc = "idle"
    BY DEF Unused, Fresh, Resting
  <1>6. Unaccepted(C2)
    <2>1. Once(<<>>) /\ \A d : ~Holds(<<>>, d)
      BY DEF Once, Holds
    <2>2. \A e \in Conns : ~Holds(conns[e].acceptmbox, c)
      BY <1>1, <1>2, NobodyElse DEF Unaccepted
    <2> QED
      BY <1>1, <1>3, <1>5, <2>1, <2>2 DEF Unaccepted
  <1>7. LocalOn(C2, D2, M, {c})
    <2>1. Mine(C2, D2, c) = Resting
      BY <1>3, <1>5 DEF Mine
    <2>2. IsPosted(C2, D2, M, c) = FALSE
      BY <1>5, <2>1 DEF IsPosted, Waits
    <2>3. Local(C2[c], Mine(C2, D2, c), IsPosted(C2, D2, M, c))
      BY <1>3, <2>1, <2>2, UnusedIs
    <2> QED
      BY <2>3 DEF LocalOn
  <1>8. LeavesAlone(conns, callers, M, C2, D2, M, {c}, t)
    BY <1>2, <1>3, <1>5 DEF LeavesAlone
  <1>9. CallOK(C2, t, D2[t])
    BY <1>3, <1>5 DEF CallOK
  <1>10. {c} \in SUBSET Conns /\ t \in Threads \cup {Nobody}
    BY <1>2
  <1>11. Sane(C2, D2, M)
    BY <1>1, <1>4, <1>6, <1>7, <1>8, <1>9, <1>10, Frame
  <1> QED
    BY <1>11 DEF NetInv, C2, D2

\* The end of a call in the caller's thread.
LEMMA ReturnStep ==
  ASSUME NetInv, NEW t \in Threads, CallReturns(t)
  PROVE  NetInv'
  <1> DEFINE c == callers[t].conn
             k == conns[c]
             m == callers[t]
             s == [k EXCEPT !.sem = k.sem - 1]
  <1>1. /\ m.pc = "waits" /\ k.sem > 0 /\ conns' = [conns EXCEPT ![c] = Returned(t)]
        /\ callers' = [callers EXCEPT ![t] = Resting] /\ UNCHANGED tcpipMbox
    BY DEF CallReturns
  <1>2. k.sem # 0
    <2>1. ~ (0 > 0)
      OBVIOUS
    <2> QED
      BY <1>1, <2>1
  <1>3. ~Holds(tcpipMbox, t) /\ CallOK(conns, t, m)
    BY <1>1, <1>2, QuietIs
  <1>4. Local(k, m, FALSE)
    BY <1>1, <1>2, QuietIs
  <1>5. k.sem = 1
    BY <1>2, <1>4 DEF Local, Woken
  <1>6. m.op \in Ops
    BY <1>1, <1>3 DEF CallOK
  <1>7. ASSUME NEW k2, Returned(t) = k2, Local(k2, Resting, FALSE), Alike(k, k2)
        PROVE  NetInv'
    BY <1>1, <1>3, <1>7, ThreadStep
  <1>8. ASSUME Returned(t) = Unused
        PROVE  NetInv'
    BY <1>1, <1>3, <1>8, FreeStep
  <1>9. CASE m.op = "delete"
    <2>1. Returned(t) = Unused
      BY <1>9 DEF Returned
    <2> QED
      BY <1>8, <2>1
  <1>10. CASE m.op = "newconn"
    <2>1. CASE m.err = "ok"
      <3>1. Returned(t) = s
        BY <1>10, <2>1 DEF Returned
      <3>2. Local(s, Resting, FALSE) /\ Alike(k, s)
        BY <1>1, <1>4, <1>5, <1>10, <2>1, NewReturns
      <3> QED
        BY <1>7, <3>1, <3>2
    <2>2. CASE m.err # "ok"
      <3>1. Returned(t) = Unused
        BY <1>10, <2>2 DEF Returned
      <3> QED
        BY <1>8, <3>1
    <2> QED
      BY <2>1, <2>2
  <1>11. CASE m.op = "recv"
    <2>1. CASE m.got = 0
      <3>1. Returned(t) = SafeErr(s, "fatal")
        BY <1>11, <2>1 DEF Returned
      <3>2. Local(SafeErr(s, "fatal"), Resting, FALSE) /\ Alike(k, SafeErr(s, "fatal"))
        BY <1>1, <1>4, <1>5, <1>11, <2>1, EndReturns
      <3> QED
        BY <1>7, <3>1, <3>2
    <2>2. CASE m.got # 0
      <3>1. Returned(t) = [s EXCEPT !.read = m.got]
        BY <1>11, <2>2 DEF Returned
      <3>2. k.type = "TCP"
        BY <1>1, <1>3, <1>11 DEF CallOK
      <3>3. Local([s EXCEPT !.read = m.got], Resting, FALSE) /\ Alike(k,
              [s EXCEPT !.read = m.got])
        BY <1>1, <1>4, <1>5, <1>11, <2>2, <3>2, PieceReturns
      <3> QED
        BY <1>7, <3>1, <3>3
    <2> QED
      BY <2>1, <2>2
  <1>12. CASE m.op \notin {"delete", "newconn", "recv"}
    <2>1. Returned(t) = SafeErr(s, m.err)
      BY <1>12 DEF Returned
    <2>2. Local(SafeErr(s, m.err), Resting, FALSE) /\ Alike(k, SafeErr(s, m.err))
      BY <1>1, <1>4, <1>5, <1>12, ReturnKeeps
    <2> QED
      BY <1>7, <2>1, <2>2
  <1> QED
    BY <1>9, <1>10, <1>11, <1>12

\* tcpip_thread takes the message of thread t.
Handles(t) == tcpipMbox # <<>> /\ t = Head(tcpipMbox) /\ tcpipMbox' = Tail(tcpipMbox)

\* The thread whose message the stack takes, and its netconn.
LEMMA MsgIs ==
  ASSUME NetInv, NEW t, Handles(t)
  PROVE  LET c == callers[t].conn IN
         /\ t \in Threads /\ t # Nobody /\ callers[t].pc = "waits" /\ callers[t].op \in Ops
         /\ c \in Conns /\ conns[c].used /\ conns[c].owner = t /\ IsNetconn(conns[c])
         /\ Local(conns[c], callers[t], TRUE) /\ CallOK(conns, t, callers[t])
  <1>1. Sane(conns, callers, tcpipMbox) /\ Mailed(callers, tcpipMbox)
    BY DEF NetInv, Sane
  <1>2. t \in Threads /\ Holds(tcpipMbox, t)
    BY <1>1, MailTaken DEF Mailed, Handles
  <1>3. Waits(callers[t])
    BY <1>1, <1>2 DEF Mailed
  <1>4. callers[t].pc # "idle" /\ callers[t].pc = "waits"
    BY <1>3 DEF Waits
  <1> DEFINE c == callers[t].conn
             p == Waits(callers[t]) /\ Holds(tcpipMbox, t)
  <1>5. /\ c \in Conns /\ conns[c].used /\ conns[c].owner = t
        /\ Local(conns[c], callers[t], p) /\ CallOK(conns, t, callers[t])
    BY <1>1, <1>2, <1>4, CallIs
  <1>6. p = TRUE
    BY <1>2, <1>3
  <1> HIDE DEF p
  <1>7. Local(conns[c], callers[t], TRUE)
    BY <1>5, <1>6
  <1>8. IsNetconn(conns[c]) /\ callers[t].op \in Ops /\ t # Nobody
    BY <1>2, <1>4, <1>5, NobodyElse DEF Local, CallOK
  <1> QED
    BY <1>2, <1>4, <1>5, <1>7, <1>8

\* The stack answers, or keeps the message.
LEMMA StackStep ==
  ASSUME NetInv, NEW t, Handles(t), NEW c, c = callers[t].conn, NEW k2, NEW m2,
         Alike(conns[c], k2), SameCall(callers[t], m2), Local(k2, m2, FALSE),
         conns' = [conns EXCEPT ![c] = k2], callers' = [callers EXCEPT ![t] = m2]
  PROVE  NetInv'
  <1>1. t \in Threads /\ c \in Conns /\ conns[c].owner = t /\ callers[t].conn = c
          /\ callers[t].pc # "idle"
    BY MsgIs
  <1>2. tcpipMbox # <<>> /\ t = Head(tcpipMbox) /\ tcpipMbox' = Tail(tcpipMbox)
    BY DEF Handles
  <1>3. Sane([conns EXCEPT ![c] = k2], [callers EXCEPT ![t] = m2], Tail(tcpipMbox))
    BY <1>1, <1>2, AnswerFrame DEF NetInv
  <1> QED
    BY <1>2, <1>3 DEF NetInv

\* An answer that leaves the netconn as it is.
LEMMA AnsweredStep ==
  ASSUME NetInv, NEW t, Handles(t), NEW c, c = callers[t].conn, NEW errs \in SUBSET Answers,
         callers[t].op \notin {"newconn", "recv", "delete"}, callers[t].op = "write"
           => "ok" \notin errs,
         Answered(t, c, errs)
  PROVE  NetInv'
  <1>1. PICK e \in errs : callers' = Told(t, e)
    BY DEF Answered
  <1>2. conns' = [conns EXCEPT ![c] = Signal(conns[c])]
    BY DEF Answered
  <1>3. t \in Threads /\ Local(conns[c], callers[t], TRUE)
    BY MsgIs
  <1> DEFINE m2 == [callers[t] EXCEPT !.err = e]
  <1>4. callers' = [callers EXCEPT ![t] = m2]
    BY <1>1, <1>3, ToldIs
  <1>5. e \in Answers /\ (callers[t].op = "write" => e # "ok")
    BY <1>1
  <1>6. /\ Local(Signal(conns[c]), m2, FALSE)
        /\ Alike(conns[c], Signal(conns[c]))
        /\ SameCall(callers[t], m2)
    BY <1>3, <1>5, AnswerKeeps
  <1> QED
    BY <1>2, <1>4, <1>6, StackStep

\* do_newconn
LEMMA NewconnStep ==
  ASSUME NetInv, NEW t, Handles(t), NEW c, c = callers[t].conn, callers[t].op = "newconn",
           do_newconn(t, c)
  PROVE  NetInv'
  <1> DEFINE k == conns[c]
             u(pcb) == Signal([k EXCEPT !.pcb = pcb])
             m2(e) == [callers[t] EXCEPT !.err = e]
  <1>1. t \in Threads /\ Local(k, callers[t], TRUE) /\ IsNetconn(k) /\ callers[t].pc = "waits"
    BY MsgIs
  <1>2. k.type \in {"TCP", "UDP"} /\ DOMAIN k = NetFields
    BY <1>1 DEF IsNetconn
  <1>3. ASSUME NEW e \in {"ok", "soft"}, NEW pcb \in {"none", "new", "udp"},
                 e = "soft" <=> pcb = "none",
               pcb = "udp" => k.type = "UDP", pcb = "new" => k.type = "TCP",
               conns' = [conns EXCEPT ![c] = u(pcb)], callers' = Told(t, e)
        PROVE  NetInv'
    <2>1. Local(u(pcb), m2(e), FALSE) /\ Alike(k, u(pcb)) /\ SameCall(callers[t], m2(e))
      BY <1>1, <1>3, NewKeeps
    <2>2. callers' = [callers EXCEPT ![t] = m2(e)]
      BY <1>1, <1>3, ToldIs
    <2> QED
      BY <1>3, <2>1, <2>2, StackStep
  <1>4. CASE conns' = [conns EXCEPT ![c] = Signal([k EXCEPT !.pcb = IF k.type = "UDP"
               THEN "udp" ELSE "new"])]
             /\ callers' = Told(t, "ok")
    <2>1. CASE k.type = "UDP"
      <3>1. conns' = [conns EXCEPT ![c] = u("udp")]
        BY <1>4, <2>1
      <3> HIDE DEF u
      <3> QED
        BY <1>3, <1>4, <2>1, <3>1
    <2>2. CASE k.type = "TCP"
      <3>1. conns' = [conns EXCEPT ![c] = u("new")]
        BY <1>4, <2>2
      <3> HIDE DEF u
      <3> QED
        BY <1>3, <1>4, <2>2, <3>1
    <2> QED
      BY <1>2, <2>1, <2>2
  <1>5. CASE conns' = [conns EXCEPT ![c] = Signal(k)] /\ callers' = Told(t, "soft")
    <2>1. k.pcb = "none"
      <3>1. k.sem = 0
        BY <1>1 DEF Local, Woken
      <3> QED
        BY <1>1, <3>1 DEF Local, Made
    <2>2. u("none") = Signal(k)
      BY <1>2, <2>1, NetFieldsAre DEF Signal
    <2>3. conns' = [conns EXCEPT ![c] = u("none")]
      BY <1>5, <2>2
    <2> HIDE DEF u
    <2> QED
      BY <1>3, <1>5, <2>3
  <1>6. \/ conns' = [conns EXCEPT ![c] = Signal([k EXCEPT !.pcb = IF k.type = "UDP"
             THEN "udp" ELSE "new"])]
           /\ callers' = Told(t, "ok")
        \/ conns' = [conns EXCEPT ![c] = Signal(k)] /\ callers' = Told(t, "soft")
    BY DEF do_newconn
  <1> QED
    BY <1>4, <1>5, <1>6

\* do_connect
LEMMA ConnectStep ==
  ASSUME NetInv, NEW t, Handles(t), NEW c, c = callers[t].conn, callers[t].op = "connect",
           do_connect(t, c)
  PROVE  NetInv'
  <1> DEFINE k == conns[c]
             m == callers[t]
             opened == [k EXCEPT !.state = "CONNECT", !.pcb = "syn",
                         !.connecting = k.nonblocking]
             kept == [k EXCEPT !.state = "CONNECT", !.pcb = "syn", !.connecting = k.nonblocking,
                               !.current = k.owner]
             m2 == [m EXCEPT !.err = "soft"]
  <1>1. t \in Threads /\ t # Nobody /\ Local(k, m, TRUE) /\ IsNetconn(k) /\ k.owner = t
    BY MsgIs
  <1>2. ASSUME NEW errs \in SUBSET Answers, Answered(t, c, errs)
        PROVE  NetInv'
    BY <1>2, AnsweredStep
  <1>3. CASE k.pcb = "new" /\ k.state = "NONE" /\ k.nonblocking
             /\ conns' = [conns EXCEPT ![c] = Signal(opened)] /\ callers' = Told(t, "soft")
    <2>1. Local(Signal(opened), m2, FALSE) /\ Alike(k, Signal(opened)) /\ SameCall(m, m2)
      BY <1>1, <1>3, ConnectingKeeps
    <2>2. callers' = [callers EXCEPT ![t] = m2]
      BY <1>1, <1>3, ToldIs
    <2> QED
      BY <1>3, <2>1, <2>2, StackStep
  <1>4. CASE k.pcb = "new" /\ k.state = "NONE" /\ ~k.nonblocking
             /\ conns' = [conns EXCEPT ![c] = [opened EXCEPT !.current = t]]
                  /\ callers' = callers
    <2>1. Local(kept, m, FALSE) /\ Alike(k, kept) /\ SameCall(m, m)
      BY <1>1, <1>4, ConnectKeeps DEF SameCall
    <2>2. [opened EXCEPT !.current = t] = kept
      BY <1>1, NetFieldsAre DEF IsNetconn
    <2>3. callers' = [callers EXCEPT ![t] = m]
      BY <1>4 DEF NetInv, Sane
    <2> QED
      BY <1>4, <2>1, <2>2, <2>3, StackStep
  <1>5. \/ Answered(t, c, {"fatal"}) \/ Answered(t, c, {"ok", "soft"}) \/ Answered(t, c,
             {"soft"})
        \/ /\ k.pcb = "new" /\ k.state = "NONE"
           /\ conns' = [conns EXCEPT ![c] = IF k.nonblocking THEN Signal(opened)
                                            ELSE [opened EXCEPT !.current = t]]
           /\ callers' = IF k.nonblocking THEN Told(t, "soft") ELSE callers
    BY DEF do_connect
  <1>6. /\ {"fatal"} \in SUBSET Answers /\ {"ok", "soft"} \in SUBSET Answers
             /\ {"soft"} \in SUBSET Answers
    BY DEF Answers
  <1> HIDE DEF opened
  <1>7. CASE /\ k.pcb = "new" /\ k.state = "NONE"
             /\ conns' = [conns EXCEPT ![c] = IF k.nonblocking THEN Signal(opened)
                                              ELSE [opened EXCEPT !.current = t]]
             /\ callers' = IF k.nonblocking THEN Told(t, "soft") ELSE callers
    <2>1. CASE k.nonblocking
      BY <1>3, <1>7, <2>1
    <2>2. CASE ~k.nonblocking
      BY <1>4, <1>7, <2>2
    <2> QED
      BY <2>1, <2>2
  <1> QED
    BY <1>2, <1>5, <1>6, <1>7

\* do_listen
LEMMA ListenStep ==
  ASSUME NetInv, NEW t, Handles(t), NEW c, c = callers[t].conn, callers[t].op = "listen",
           do_listen(t, c)
  PROVE  NetInv'
  <1> DEFINE k == conns[c]
             m == callers[t]
             u(pcb) == [k EXCEPT !.state = IF pcb = "listen" THEN "LISTEN" ELSE "NONE",
               !.pcb = pcb,
                                 !.boxes = IF pcb = "listen" THEN {"accept"}
                                           ELSE IF pcb = "new" THEN {"recv"} ELSE {}]
             m2(e) == [m EXCEPT !.err = e]
             May == k.pcb = "new" /\ k.state = "NONE"
  <1>1. t \in Threads /\ Local(k, m, TRUE) /\ IsNetconn(k)
    BY MsgIs
  <1>2. ASSUME NEW e \in Answers, Answered(t, c, {e})
        PROVE  NetInv'
    BY <1>2, AnsweredStep
  <1>3. ASSUME NEW pcb \in {"listen", "new", "none"}, NEW e \in Answers, May,
               conns' = [conns EXCEPT ![c] = Signal(u(pcb))], callers' = Told(t, e)
        PROVE  NetInv'
    <2>1. /\ Local(Signal(u(pcb)), m2(e), FALSE)
          /\ Alike(k, Signal(u(pcb)))
          /\ SameCall(m, m2(e))
      BY <1>1, <1>3, ListenKeeps
    <2>2. callers' = [callers EXCEPT ![t] = m2(e)]
      BY <1>1, <1>3, ToldIs
    <2> QED
      BY <1>3, <2>1, <2>2, StackStep
  <1>4. CASE May /\ callers' = Told(t, "ok")
             /\ conns' = [conns EXCEPT ![c] = Signal([k EXCEPT !.state = "LISTEN",
                  !.pcb = "listen",
                                                               !.boxes = {"accept"}])]
    <2>1. conns' = [conns EXCEPT ![c] = Signal(u("listen"))]
      BY <1>4
    <2> HIDE DEF u
    <2> QED
      BY <1>3, <1>4, <2>1 DEF Answers
  <1>5. CASE May /\ callers' = Told(t, "soft") /\ conns' = [conns EXCEPT ![c] = Signal(k)]
    <2>1. k.boxes = {"recv"}
      BY <1>1, <1>5 DEF Local, Shape
    <2>2. Signal(u("new")) = Signal(k)
      BY <1>1, <1>5, <2>1, NetFieldsAre, ZenonT(60) DEF IsNetconn, Signal
    <2>3. conns' = [conns EXCEPT ![c] = Signal(u("new"))]
      BY <1>5, <2>2
    <2> HIDE DEF u
    <2> QED
      BY <1>3, <1>5, <2>3 DEF Answers
  <1>6. CASE May /\ callers' = Told(t, "soft")
             /\ conns' = [conns EXCEPT ![c] = Signal([k EXCEPT !.pcb = "none", !.boxes = {}])]
    <2>1. u("none") = [k EXCEPT !.pcb = "none", !.boxes = {}]
      BY <1>1, <1>6, NetFieldsAre DEF IsNetconn
    <2>2. conns' = [conns EXCEPT ![c] = Signal(u("none"))]
      BY <1>6, <2>1
    <2> HIDE DEF u
    <2> QED
      BY <1>3, <1>6, <2>2 DEF Answers
  <1>7. \/ Answered(t, c, {"fatal"}) \/ Answered(t, c, {"soft"})
        \/ May /\ callers' = Told(t, "ok")
             /\ conns' = [conns EXCEPT ![c] = Signal([k EXCEPT !.state = "LISTEN",
                  !.pcb = "listen",
                                                               !.boxes = {"accept"}])]
        \/ May /\ callers' = Told(t, "soft") /\ conns' = [conns EXCEPT ![c] = Signal(k)]
        \/ May /\ callers' = Told(t, "soft")
             /\ conns' = [conns EXCEPT ![c] = Signal([k EXCEPT !.pcb = "none", !.boxes = {}])]
    BY DEF do_listen
  <1> QED
    BY <1>2, <1>4, <1>5, <1>6, <1>7 DEF Answers

\* do_recv
LEMMA RecvStep ==
  ASSUME NetInv, NEW t, Handles(t), NEW c, c = callers[t].conn, callers[t].op = "recv",
           do_recv(t, c)
  PROVE  NetInv'
  <1> DEFINE k == conns[c]
             m == callers[t]
             x == IF k.pcb = "none" \/ k.unread = 0 THEN k.unread ELSE k.unread - 1
             m2 == [m EXCEPT !.err = "ok"]
  <1>1. /\ t \in Threads /\ Local(k, m, TRUE) /\ IsNetconn(k) /\ CallOK(conns, t, m)
        /\ callers[t].pc = "waits"
    BY MsgIs
  <1>2. k.type = "TCP" /\ x \in Int
    BY <1>1 DEF CallOK, IsNetconn
  <1>3. conns' = [conns EXCEPT ![c] = Signal([k EXCEPT !.unread = x])] /\ callers' = Told(t,
          "ok")
    BY DEF do_recv
  <1>4. callers' = [callers EXCEPT ![t] = m2]
    BY <1>1, <1>3, ToldIs
  <1>5. /\ Local(Signal([k EXCEPT !.unread = x]), m2, FALSE) /\ Alike(k,
             Signal([k EXCEPT !.unread = x]))
        /\ SameCall(m, m2)
    BY <1>1, <1>2, RecvKeeps
  <1> HIDE DEF x
  <1> QED
    BY <1>3, <1>4, <1>5, StackStep

\* do_write
LEMMA WrittenStep ==
  ASSUME NetInv, NEW t, Handles(t), NEW c, c = callers[t].conn, callers[t].op = "write",
           do_write(t, c)
  PROVE  NetInv'
  <1> DEFINE k == conns[c]
             m == callers[t]
             w == [k EXCEPT !.state = "WRITE", !.current = t, !.offset = 0]
  <1>1. /\ t \in Threads /\ t # Nobody /\ c \in Conns /\ k.owner = t /\ Local(k, m, TRUE)
        /\ CallOK(conns, t, m) /\ m.pc = "waits"
    BY MsgIs
  <1>2. ASSUME NEW e \in {"soft", "fatal"}, Answered(t, c, {e})
        PROVE  NetInv'
    <2>1. {e} \in SUBSET Answers /\ "ok" \notin {e}
      BY DEF Answers
    <2> QED
      BY <1>2, <2>1, AnsweredStep
  <1>3. CASE k.state = "NONE" /\ k.pcb # "none" /\ do_writemore(c, w, t)
    <2>1. k.type = "TCP"
      BY <1>1 DEF CallOK
    <2>2. Working(w, m) /\ Alike(k, w)
      BY <1>1, <1>3, <2>1, WriteStarts
    <2> HIDE DEF w
    <2>3. Goes(conns, c, w, t)
      BY <1>1, <1>3, <2>2, WriteMoreIs
    <2>4. PICK k2, m2 : /\ Local(k2, m2, FALSE) /\ Alike(w, k2) /\ SameCall(m, m2)
                        /\ conns' = [conns EXCEPT ![c] = k2]
                             /\ callers' = [callers EXCEPT ![t] = m2]
      BY <2>3 DEF Goes
    <2>5. Alike(k, k2)
      BY <2>2, <2>4 DEF Alike
    <2> QED
      BY <2>4, <2>5, StackStep
  <1>4. \/ Answered(t, c, {"fatal"}) \/ Answered(t, c, {"soft"})
        \/ k.state = "NONE" /\ k.pcb # "none" /\ do_writemore(c, w, t)
    BY DEF do_write
  <1> QED
    BY <1>2, <1>3, <1>4

\* netconn_drain: what becomes of the netconns nobody has accepted.
LEMMA DrainFrame ==
  ASSUME NetInv, NEW t, Handles(t), NEW c, c = callers[t].conn, NEW k2, NEW m2,
         Emptied(conns[c], k2), SameCall(callers[t], m2), Local(k2, m2, FALSE),
         conns' = [netconn_drain(c) EXCEPT ![c] = k2], callers' = [callers EXCEPT ![t] = m2]
  PROVE  NetInv'
  <1> DEFINE q == conns[c].acceptmbox
             X == {c} \cup {d \in Conns : Holds(q, d)}
             C2 == [netconn_drain(c) EXCEPT ![c] = k2]
             D2 == [callers EXCEPT ![t] = m2]
             M2 == Tail(tcpipMbox)
  <1>1. /\ Sane(conns, callers, tcpipMbox) /\ conns = [e \in Conns |-> conns[e]]
        /\ callers = [s \in Threads |-> callers[s]] /\ Unaccepted(conns) /\ Mailed(callers,
             tcpipMbox)
    BY DEF NetInv, Sane
  <1>2. /\ t \in Threads /\ t # Nobody /\ c \in Conns /\ conns[c].used /\ conns[c].owner = t
        /\ callers[t].conn = c /\ callers[t].pc = "waits" /\ CallOK(conns, t, callers[t])
    BY MsgIs
  <1>3. tcpipMbox # <<>> /\ t = Head(tcpipMbox) /\ tcpipMbox' = M2
    BY DEF Handles
  <1>4. /\ C2[c] = k2 /\ C2 = [e \in Conns |-> C2[e]]
        /\ \A d \in Conns \ {c} : C2[d] = IF Holds(q, d) THEN Unused ELSE conns[d]
        /\ D2[t] = m2 /\ D2 = [s \in Threads |-> D2[s]]
             /\ \A s \in Threads \ {t} : D2[s] = callers[s]
    BY <1>1, <1>2 DEF netconn_drain, Holds
  <1>5. Mailed(D2, M2)
    BY <1>1, <1>2, <1>3, MailedStill
  <1>6. ~Holds(M2, t) /\ \A s \in Threads \ {t} : Holds(M2, s) <=> Holds(tcpipMbox, s)
    BY <1>1, <1>3, MailTaken DEF Mailed
  <1>7. \A d \in Conns : Holds(q, d) => d # c /\ conns[d].used /\ conns[d].owner = Nobody
                                        /\ \A e \in Conns : Holds(conns[e].acceptmbox, d)
                                             => e = c
    BY <1>1, <1>2 DEF Unaccepted
  <1> HIDE DEF q, C2, D2, M2
  <1>8. /\ Unused.owner = Nobody /\ Unused.acceptmbox = <<>> /\ Resting.pc = "idle"
        /\ m2.conn = c /\ m2.pc = "waits" /\ m2.op = callers[t].op
        /\ k2.used = conns[c].used /\ k2.owner = t /\ k2.type = conns[c].type
             /\ k2.acceptmbox = <<>>
    BY <1>2 DEF Unused, Fresh, Resting, Emptied, SameCall
  <1>9. Unaccepted(C2)
    <2>1. Once(<<>>) /\ \A d : ~Holds(<<>>, d)
      BY DEF Once, Holds
    <2>2. \A e \in Conns : C2[e].acceptmbox = <<>>
                           \/ (e # c /\ ~Holds(q, e) /\ C2[e] = conns[e])
      BY <1>4, <1>8
    <2>3. \A e \in Conns : Once(C2[e].acceptmbox)
      BY <1>1, <2>1, <2>2 DEF Unaccepted
    <2>4. \A e, d \in Conns : Holds(C2[e].acceptmbox, d) => e # c
            /\ Holds(conns[e].acceptmbox, d)
      BY <2>1, <2>2
    <2>5. \A e, d \in Conns : Holds(conns[e].acceptmbox, d) /\ e # c => d # c /\ ~Holds(q, d)
      BY <1>1, <1>2, <1>7 DEF Unaccepted
    <2>6. \A e, d \in Conns : Holds(C2[e].acceptmbox, d) => C2[d] = conns[d]
      BY <1>4, <2>4, <2>5
    <2>7. ASSUME NEW e \in Conns, NEW d \in Conns, Holds(C2[e].acceptmbox, d)
          PROVE  /\ d # e /\ C2[d].used /\ C2[d].owner = Nobody
                 /\ \A f \in Conns : Holds(C2[f].acceptmbox, d) => f = e
      <3>1. /\ d # e /\ conns[d].used /\ conns[d].owner = Nobody
            /\ \A f \in Conns : Holds(conns[f].acceptmbox, d) => f = e
        BY <1>1, <2>4, <2>7 DEF Unaccepted
      <3> QED
        BY <2>4, <2>6, <2>7, <3>1
    <2> QED
      BY <2>3, <2>7 DEF Unaccepted
  <1>10. LocalOn(C2, D2, M2, X)
    <2>1. Mine(C2, D2, c) = m2 /\ IsPosted(C2, D2, M2, c) = FALSE
      BY <1>2, <1>4, <1>6, <1>8 DEF Mine, IsPosted
    <2>2. Local(C2[c], Mine(C2, D2, c), IsPosted(C2, D2, M2, c))
      BY <1>4, <2>1
    <2>3. ASSUME NEW d \in Conns, Holds(q, d)
          PROVE  Local(C2[d], Mine(C2, D2, d), IsPosted(C2, D2, M2, d))
      <3>1. C2[d] = Unused
        BY <1>4, <1>7, <2>3
      <3>2. Mine(C2, D2, d) = Resting
        BY <1>8, <3>1 DEF Mine
      <3>3. IsPosted(C2, D2, M2, d) = FALSE
        BY <1>8, <3>2 DEF IsPosted, Waits
      <3> QED
        BY <3>1, <3>2, <3>3, UnusedIs
    <2> QED
      BY <2>2, <2>3 DEF LocalOn
  <1>11. LeavesAlone(conns, callers, tcpipMbox, C2, D2, M2, X, t)
    <2>1. \A d \in Conns \ X : C2[d] = conns[d]
      BY <1>4
    <2>2. \A d \in X : Owned(conns[d], C2[d]) \/ conns[d].owner \in {Nobody, t}
      BY <1>2, <1>7
    <2>3. callers[t].conn \in X \cup {Nobody} /\ D2[t].conn \in X \cup {Nobody}
      BY <1>2, <1>4, <1>8
    <2> HIDE DEF X
    <2> QED
      BY <1>4, <1>6, <2>1, <2>2, <2>3 DEF LeavesAlone
  <1>12. CallOK(C2, t, D2[t])
    <2>1. /\ D2[t] = m2 /\ m2.conn = c /\ C2[c] = k2 /\ m2.pc = "waits" /\ m2.op = callers[t].op
          /\ k2.used /\ k2.owner = t /\ k2.type = conns[c].type
      BY <1>2, <1>4, <1>8
    <2>2. /\ callers[t].op \in Ops
          /\ (callers[t].op = "recv" \/ callers[t].op = "write" => conns[c].type = "TCP")
      BY <1>2 DEF CallOK
    <2>3. CallOK(C2, t, m2)
      BY <1>2, <2>1, <2>2 DEF CallOK
    <2> QED
      BY <2>1, <2>3
  <1>13. X \in SUBSET Conns /\ t \in Threads \cup {Nobody}
    BY <1>2
  <1> HIDE DEF X
  <1>14. Sane(C2, D2, M2)
    BY <1>1, <1>5, <1>9, <1>10, <1>11, <1>12, <1>13, Frame
  <1> QED
    BY <1>3, <1>14 DEF NetInv, C2, D2

\* No call is answered while another is kept.
LEMMA NothingKept ==
  ASSUME NEW k, NEW m, Local(k, m, TRUE)
  PROVE  k.current = Nobody /\ k.state \in {"NONE", "LISTEN", "CONNECT"}
  <1>1. k.current = Nobody
    BY DEF Local, Woken
  <1>2. ~KeepsMessage(k)
    BY <1>1 DEF Local, Busy
  <1> QED
    BY <1>1, <1>2 DEF KeepsMessage, Local, IsNetconn

\* do_close, do_delconn for a connection
LEMMA ClosingStep ==
  ASSUME NetInv, NEW t, Handles(t), NEW c, c = callers[t].conn, callers[t].op \in {"close",
           "delete"},
         Closing(t, c)
  PROVE  NetInv'
  <1> DEFINE k == conns[c]
             m == callers[t]
             cs == netconn_drain(c)
             w == [Drained(k) EXCEPT !.state = "CLOSE", !.current = k.owner]
             m2 == [m EXCEPT !.err = "ok"]
  <1>1. /\ t \in Threads /\ t # Nobody /\ c \in Conns /\ k.owner = t /\ Local(k, m, TRUE)
             /\ IsNetconn(k)
    BY MsgIs
  <1>2. cs[c] = Drained(k)
    BY <1>1 DEF netconn_drain
  <1>3. do_close_internal(cs, c, w, t)
    BY <1>1, <1>2 DEF Closing
  <1>4. k.state \in {"NONE", "LISTEN", "CONNECT"}
    BY <1>1, NothingKept
  <1>5. CASE conns' = [cs EXCEPT ![c] = Ended(Gone(w))] /\ callers' = Told(t, "ok")
    <2>1. Local(Ended(Gone(w)), m2, FALSE) /\ Emptied(k, Ended(Gone(w))) /\ SameCall(m, m2)
      BY <1>1, <1>4, CloseAtOnce
    <2>2. callers' = [callers EXCEPT ![t] = m2]
      BY <1>1, <1>5, ToldIs
    <2> HIDE DEF w
    <2> QED
      BY <1>5, <2>1, <2>2, DrainFrame
  <1>6. CASE /\ w.pcb = "open" /\ w.refused = 0 /\ w.unread = 0
             /\ conns' = [cs EXCEPT ![c] = [w EXCEPT !.rx = FALSE]] /\ callers' = callers
    <2>1. Drained(k).pcb = k.pcb /\ Drained(k).refused = k.refused
            /\ DOMAIN Drained(k) = NetFields
      BY <1>1, DrainedIs
    <2>2. k.pcb = "open" /\ k.refused = 0 /\ Drained(k).unread = 0
      BY <1>6, <2>1, NetFieldsAre
    <2>3. Local([w EXCEPT !.rx = FALSE], m, FALSE) /\ Emptied(k, [w EXCEPT !.rx = FALSE])
      BY <1>1, <2>2, CloseWaits
    <2>4. callers' = [callers EXCEPT ![t] = m] /\ SameCall(m, m)
      BY <1>6 DEF NetInv, Sane, SameCall
    <2> HIDE DEF w
    <2> QED
      BY <1>6, <2>3, <2>4, DrainFrame
  <1> QED
    BY <1>3, <1>5, <1>6 DEF do_close_internal

\* do_close
LEMMA CloseStep ==
  ASSUME NetInv, NEW t, Handles(t), NEW c, c = callers[t].conn, callers[t].op = "close",
           do_close(t, c)
  PROVE  NetInv'
  <1>1. CASE Closing(t, c)
    BY <1>1, ClosingStep
  <1>2. CASE Answered(t, c, {"soft"})
    <2>1. {"soft"} \in SUBSET Answers
      BY DEF Answers
    <2> QED
      BY <1>2, <2>1, AnsweredStep
  <1> QED
    BY <1>1, <1>2 DEF do_close

\* do_delconn
LEMMA DeleteStep ==
  ASSUME NetInv, NEW t, Handles(t), NEW c, c = callers[t].conn, callers[t].op = "delete",
           do_delconn(t, c)
  PROVE  NetInv'
  <1> DEFINE k == conns[c]
             m == callers[t]
             u == Signal(Gone(Drained(k)))
  <1>1. t \in Threads /\ c \in Conns /\ Local(k, m, TRUE)
    BY MsgIs
  <1>2. k.state \in {"NONE", "LISTEN", "CONNECT"}
    BY <1>1, NothingKept
  <1>3. CASE Closing(t, c)
    BY <1>3, ClosingStep
  <1>4. CASE /\ k.pcb = "none" \/ k.type # "TCP"
             /\ conns' = [netconn_drain(c) EXCEPT ![c] = Signal(Gone(@))] /\ callers' = callers
    <2>1. netconn_drain(c)[c] = Drained(k)
      BY <1>1 DEF netconn_drain
    <2>2. conns' = [netconn_drain(c) EXCEPT ![c] = u]
      BY <1>4, <2>1
    <2>3. Local(u, m, FALSE) /\ Emptied(k, u)
      BY <1>1, <1>2, <1>4, Deletes
    <2>4. callers' = [callers EXCEPT ![t] = m] /\ SameCall(m, m)
      BY <1>4 DEF NetInv, Sane, SameCall
    <2> HIDE DEF u
    <2> QED
      BY <2>2, <2>3, <2>4, DrainFrame
  <1> QED
    BY <1>2, <1>3, <1>4 DEF do_delconn

\* The calls that only ask the pcb.
LEMMA PlainAnswers ==
  ASSUME NEW k
  PROVE  /\ do_bind(k) \in SUBSET Answers /\ do_send(k) \in SUBSET Answers
         /\ do_join_leave_group(k) \in SUBSET Answers /\ do_disconnect(k) \in SUBSET Answers
         /\ do_getaddr(k) \in SUBSET Answers
  BY DEF do_bind, do_send, do_join_leave_group, do_disconnect, do_getaddr, IfAlive, Answers

\* tcpip_thread, whatever the message asks.
LEMMA StackNext ==
  ASSUME NetInv, tcpip_thread
  PROVE  NetInv'
  <1> DEFINE t == Head(tcpipMbox)
             c == callers[t].conn
             op == callers[t].op
  <1>1. Handles(t)
    BY DEF tcpip_thread, Handles
  <1>2. op \in Ops
    BY <1>1, MsgIs
  <1>3. CASE op = "newconn"
    <2>1. do_newconn(t, c)
      BY <1>3 DEF tcpip_thread
    <2> QED
      BY <1>1, <1>3, <2>1, NewconnStep
  <1>4. CASE op = "connect"
    <2>1. do_connect(t, c)
      BY <1>4 DEF tcpip_thread
    <2> QED
      BY <1>1, <1>4, <2>1, ConnectStep
  <1>5. CASE op = "listen"
    <2>1. do_listen(t, c)
      BY <1>5 DEF tcpip_thread
    <2> QED
      BY <1>1, <1>5, <2>1, ListenStep
  <1>6. CASE op = "recv"
    <2>1. do_recv(t, c)
      BY <1>6 DEF tcpip_thread
    <2> QED
      BY <1>1, <1>6, <2>1, RecvStep
  <1>7. CASE op = "write"
    <2>1. do_write(t, c)
      BY <1>7 DEF tcpip_thread
    <2> QED
      BY <1>1, <1>7, <2>1, WrittenStep
  <1>8. CASE op = "close"
    <2>1. do_close(t, c)
      BY <1>8 DEF tcpip_thread
    <2> QED
      BY <1>1, <1>8, <2>1, CloseStep
  <1>9. CASE op = "delete"
    <2>1. do_delconn(t, c)
      BY <1>9 DEF tcpip_thread
    <2> QED
      BY <1>1, <1>9, <2>1, DeleteStep
  <1>10. CASE op = "bind"
    <2>1. Answered(t, c, do_bind(conns[c]))
      BY <1>10 DEF tcpip_thread
    <2>2. do_bind(conns[c]) \in SUBSET Answers
      BY PlainAnswers
    <2> QED
      BY <1>1, <1>10, <2>1, <2>2, AnsweredStep
  <1>11. CASE op = "send"
    <2>1. Answered(t, c, do_send(conns[c]))
      BY <1>11 DEF tcpip_thread
    <2>2. do_send(conns[c]) \in SUBSET Answers
      BY PlainAnswers
    <2> QED
      BY <1>1, <1>11, <2>1, <2>2, AnsweredStep
  <1>12. CASE op = "group"
    <2>1. Answered(t, c, do_join_leave_group(conns[c]))
      BY <1>12 DEF tcpip_thread
    <2>2. do_join_leave_group(conns[c]) \in SUBSET Answers
      BY PlainAnswers
    <2> QED
      BY <1>1, <1>12, <2>1, <2>2, AnsweredStep
  <1>13. CASE op = "disconnect"
    <2>1. Answered(t, c, do_disconnect(conns[c]))
      BY <1>13 DEF tcpip_thread
    <2>2. do_disconnect(conns[c]) \in SUBSET Answers
      BY PlainAnswers
    <2> QED
      BY <1>1, <1>13, <2>1, <2>2, AnsweredStep
  <1>14. CASE op = "getaddr"
    <2>1. Answered(t, c, do_getaddr(conns[c]))
      BY <1>14 DEF tcpip_thread
    <2>2. do_getaddr(conns[c]) \in SUBSET Answers
      BY PlainAnswers
    <2> QED
      BY <1>1, <1>14, <2>1, <2>2, AnsweredStep
  <1> QED
    BY <1>2, <1>3, <1>4, <1>5, <1>6, <1>7, <1>8,
       <1>9, <1>10, <1>11, <1>12, <1>13, <1>14 DEF Ops, Plain

\* The invariant holds before the first call.
LEMMA NetInit ==
  ASSUME NetconnInit
  PROVE  NetInv
  <1>1. /\ conns = [c \in Conns |-> Unused] /\ callers = [t \in Threads |-> Resting]
             /\ tcpipMbox = <<>>
    BY DEF NetconnInit
  <1>2. /\ Unused.owner = Nobody /\ Unused.acceptmbox = <<>> /\ Resting.pc = "idle"
    BY DEF Unused, Fresh, Resting
  <1>3. Once(<<>>) /\ \A x : ~Holds(<<>>, x)
    BY DEF Once, Holds
  <1>4. Mailed(callers, tcpipMbox)
    <2>1. <<>> \in Seq(Threads)
      OBVIOUS
    <2> QED
      BY <1>1, <1>3, <2>1 DEF Mailed
  <1>5. Unaccepted(conns)
    BY <1>1, <1>2, <1>3 DEF Unaccepted
  <1>6. ASSUME NEW t \in Threads
        PROVE  CallOK(conns, t, callers[t])
    BY <1>1, <1>2 DEF CallOK
  <1>7. ASSUME NEW c \in Conns
        PROVE  Local(conns[c], Mine(conns, callers, c), IsPosted(conns, callers, tcpipMbox, c))
    <2>1. conns[c] = Unused
      BY <1>1
    <2>2. Mine(conns, callers, c) = Resting
      BY <1>2, <2>1 DEF Mine
    <2>3. IsPosted(conns, callers, tcpipMbox, c) = FALSE
      BY <1>2, <2>2 DEF IsPosted, Waits
    <2> QED
      BY <2>1, <2>2, <2>3, UnusedIs
  <1>8. conns = [c \in Conns |-> conns[c]] /\ callers = [t \in Threads |-> callers[t]]
    BY <1>1
  <1> QED
    BY <1>4, <1>5, <1>6, <1>7, <1>8 DEF NetInv, Sane

\* The events of a pcb.
LEMMA EventNext ==
  ASSUME NetInv, NEW c \in Conns,
         \/ do_connected(c) \/ Reset(c) \/ Data(c) \/ Fin(c) \/ Refused(c)
         \/ poll_tcp(c) \/ sent_tcp(c) \/ recv_udp(c)
  PROVE  NetInv'
  <1>1. CASE Reset(c)
    BY <1>1, ErrStep DEF Reset
  <1> QED
    BY <1>1, ConnectedStep, DataStep, FinStep, RefusedStep, PollStep, SentStep, DatagramStep

\* A thread goes on with its call.
LEMMA ThreadNext ==
  ASSUME NetInv, NEW t \in Threads, ThreadGoesOn(t)
  PROVE  NetInv'
  BY FetchDataStep, FetchConnStep, AskRecvStep, ReturnStep DEF ThreadGoesOn

\* Every step keeps the invariant.
LEMMA NetNext ==
  ASSUME NetInv, [NetconnNext]_netconnVars
  PROVE  NetInv'
  <1>1. CASE UNCHANGED netconnVars
    BY <1>1 DEF netconnVars, NetInv
  <1>2. CASE NetconnNext
    <2>1. CASE \E t \in Threads, c \in Conns, type \in Types, nonblocking \in BOOLEAN :
                  netconn_new(t, c, type, nonblocking)
      BY <2>1, NewStep
    <2>2. CASE \E t \in Threads, c \in Conns, op \in Plain : netconn_plain(t, c, op)
      BY <2>2, AsksStep
    <2>3. CASE \E t \in Threads, c \in Conns :
                  netconn_send(t, c) \/ netconn_join_leave_group(t, c) \/ netconn_write(t, c)
                  \/ netconn_close(t, c) \/ netconn_delete(t, c)
      BY <2>3, AsksStep
    <2>4. CASE \E t \in Threads, c \in Conns, box \in {"recv", "accept"} : Look(t, c, box)
      BY <2>4, LookStep
    <2>5. CASE \E t \in Threads : ThreadGoesOn(t)
      BY <2>5, ThreadNext
    <2>6. CASE tcpip_thread
      BY <2>6, StackNext
    <2>7. CASE \E c \in Conns : do_connected(c) \/ Reset(c) \/ Data(c) \/ Fin(c) \/ Refused(c)
                               \/ poll_tcp(c) \/ sent_tcp(c) \/ recv_udp(c)
      BY <2>7, EventNext
    <2>8. CASE \E c \in Conns, n \in Conns : accept_function(c, n)
      BY <2>8, AcceptedStep
    <2> QED
      BY <1>2, <2>1, <2>2, <2>3, <2>4, <2>5, <2>6, <2>7, <2>8 DEF NetconnNext
  <1> QED
    BY <1>1, <1>2

\* The threads in a call of netconn c: its owner, or nobody.
LEMMA UserIs ==
  ASSUME NetInv, NEW c \in Conns
  PROVE  LET m == Mine(conns, callers, c)
             o == conns[c].owner IN
         /\ \A t \in Threads : callers[t].conn = c => t = o /\ callers[t] = m
         /\ m.pc # "idle" => o \in Threads /\ callers[o] = m /\ m.conn = c
         /\ m.pc = "idle" => m = Resting
  <1>1. Sane(conns, callers, tcpipMbox) /\ \A t \in Threads : CallOK(conns, t, callers[t])
    BY DEF NetInv, Sane
  <1>2. Resting.pc = "idle" /\ Resting.conn = Nobody
    BY DEF Resting
  <1>3. conns[c].owner \in Threads \cup {Nobody}
    BY <1>1, OwnerIs
  <1>4. ASSUME NEW t \in Threads, callers[t].conn = c
        PROVE  t = conns[c].owner /\ callers[t] = Mine(conns, callers, c)
    <2>1. callers[t].pc # "idle"
      BY <1>1, <1>2, <1>4, NobodyElse DEF CallOK
    <2> QED
      BY <1>1, <1>4, <2>1, CallIs
  <1>5. Mine(conns, callers, c).pc # "idle" =>
          /\ conns[c].owner \in Threads /\ callers[conns[c].owner] = Mine(conns, callers, c)
          /\ Mine(conns, callers, c).conn = c
    BY <1>2, <1>3 DEF Mine
  <1>6. Mine(conns, callers, c).pc = "idle" => Mine(conns, callers, c) = Resting
    BY <1>1, <1>3 DEF Mine, CallOK
  <1> QED
    BY <1>4, <1>5, <1>6

\* The waiting callers of a netconn are its owner or nobody.
LEMMA WokenIs ==
  ASSUME NetInv
  PROVE  WokenOnce
  <1> SUFFICES ASSUME NEW c \in Conns
               PROVE  LET waiting == {t \in Threads : callers[t].pc = "waits"
                        /\ callers[t].conn = c}
                          posted == {t \in waiting : Holds(tcpipMbox, t)}
                          kept == IF conns[c].current = Nobody THEN {} ELSE {conns[c].current}
                      IN  /\ kept \subseteq waiting /\ kept \cap posted = {}
                          /\ conns[c].sem + Cardinality(posted) + Cardinality(kept) = Cardinality(waiting)
                          /\ Cardinality(waiting) <= 1
    BY DEF WokenOnce
  <1> DEFINE k == conns[c]
             m == Mine(conns, callers, c)
             o == k.owner
             p == IsPosted(conns, callers, tcpipMbox, c)
             waiting == {t \in Threads : callers[t].pc = "waits" /\ callers[t].conn = c}
             posted == {t \in waiting : Holds(tcpipMbox, t)}
             kept == IF conns[c].current = Nobody THEN {} ELSE {conns[c].current}
  <1>1. Woken(k, m, p)
    BY OwnerIs DEF NetInv, Local
  <1>2. /\ \A t \in Threads : callers[t].conn = c => t = o /\ callers[t] = m
        /\ m.pc = "waits" => o \in Threads /\ callers[o] = m /\ m.conn = c
    BY UserIs
  <1>3. p <=> (m.pc = "waits" /\ Holds(tcpipMbox, o))
    BY DEF IsPosted, Waits
  <1>4. Cardinality({}) = 0 /\ Cardinality({o}) = 1
    BY FS_EmptySet, FS_Singleton
  <1> HIDE DEF m, p
  <1>5. CASE m.pc = "waits"
    <2>1. waiting = {o}
      BY <1>2, <1>5
    <2>2. posted = IF p THEN {o} ELSE {}
      BY <1>3, <1>5, <2>1
    <2>3. kept = IF k.current # Nobody THEN {o} ELSE {}
      BY <1>1 DEF Woken
    <2>4. /\ p \in BOOLEAN /\ k.sem \in {0, 1} /\ (k.current # Nobody => ~p /\ k.sem = 0)
               /\ (k.sem = 1 => ~p)
          /\ (p \/ k.current # Nobody \/ k.sem = 1)
      BY <1>1, <1>5 DEF Woken, Waits
    <2> HIDE DEF waiting, posted, kept, o
    <2> DEFINE Goal == /\ kept \subseteq waiting /\ kept \cap posted = {}
          /\ k.sem + Cardinality(posted) + Cardinality(kept) = Cardinality(waiting)
          /\ Cardinality(waiting) <= 1
    <2>5. ASSUME p PROVE Goal
      BY <1>4, <2>1, <2>2, <2>3, <2>4, <2>5
    <2>6. ASSUME k.current # Nobody PROVE Goal
      BY <1>4, <2>1, <2>2, <2>3, <2>4, <2>6
    <2>7. ASSUME k.current = Nobody /\ ~p PROVE Goal
      BY <1>4, <2>1, <2>2, <2>3, <2>4, <2>7
    <2> QED
      BY <2>5, <2>6, <2>7 DEF waiting, posted, kept
  <1>6. CASE m.pc # "waits"
    <2>1. waiting = {} /\ posted = {}
      BY <1>2, <1>6
    <2>2. kept = {} /\ k.sem = 0
      BY <1>1, <1>6 DEF Woken, Waits
    <2> HIDE DEF waiting, posted, kept
    <2>3. /\ kept \subseteq waiting /\ kept \cap posted = {}
          /\ k.sem + Cardinality(posted) + Cardinality(kept) = Cardinality(waiting)
          /\ Cardinality(waiting) <= 1
      BY <1>4, <2>1, <2>2
    <2> QED
      BY <2>3 DEF waiting, posted, kept
  <1> QED
    BY <1>5, <1>6

\* The assertions of the callbacks.
LEMMA AssertionsAre ==
  ASSUME NetInv
  PROVE  AssertionsHold
  <1> SUFFICES ASSUME NEW c \in Conns
               PROVE  LET k == conns[c] IN
        /\ (k.current # Nobody) <=> KeepsMessage(k)
        /\ k.state # "NONE" => k.pcb # "none"
        /\ (k.state = "CONNECT") <=> (k.pcb = "syn")
        /\ k.pcb # "none" /\ k.offset > 0 => k.state = "WRITE"
             /\ k.offset < callers[k.current].size
        /\ k.sem = 1 /\ (\E t \in Threads : callers[t].conn = c /\ callers[t].op = "delete") =>
              k.pcb = "none" /\ k.boxes = {}
    BY DEF AssertionsHold
  <1> DEFINE k == conns[c]
             m == Mine(conns, callers, c)
             p == IsPosted(conns, callers, tcpipMbox, c)
  <1>1. Busy(k, m) /\ Shape(k) /\ Made(k, m) /\ Blocks(k, m) /\ IsNetconn(k)
    BY OwnerIs DEF NetInv, Local
  <1>2. (k.current # Nobody) <=> KeepsMessage(k)
    BY <1>1 DEF Busy
  <1>3. k.current # Nobody => m = callers[k.current]
    BY KeptIs
  <1>4. k.state # "NONE" => k.pcb # "none"
    BY <1>1 DEF Shape, Blocks, IsNetconn
  <1>5. (k.state = "CONNECT") <=> (k.pcb = "syn")
    BY <1>1 DEF Shape
  <1>6. k.pcb # "none" /\ k.offset > 0 => k.state = "WRITE"
          /\ k.offset < callers[k.current].size
    BY <1>1, <1>2, <1>3 DEF Busy, KeepsMessage
  <1>7. (\E t \in Threads : callers[t].conn = c /\ callers[t].op = "delete") => m.op = "delete"
    BY UserIs
  <1>8. k.sem = 1 /\ m.op = "delete" => k.pcb = "none" /\ k.boxes = {}
    BY <1>1 DEF Made
  <1> QED
    BY <1>2, <1>4, <1>5, <1>6, <1>7, <1>8

\* A thread that is about to wait is told of a failure.
LEMMA NeverDead ==
  ASSUME NetInv
  PROVE  NeverWaitsForTheDead
  <1> SUFFICES ASSUME NEW t \in Threads, callers[t].pc = "looked"
               PROVE  LET k == conns[callers[t].conn] IN
        /\ callers[t].op \in k.boxes
        /\ (callers[t].op = "recv" /\ k.recvmbox = <<>> => k.lastErr # "fatal"
             /\ k.pcb # "none")
    BY DEF NeverWaitsForTheDead
  <1> DEFINE k == conns[callers[t].conn]
             m == callers[t]
  <1>1. Local(k, m, FALSE) /\ k.used
    BY QuietIs
  <1>2. m.op \in k.boxes /\ (m.op = "recv" /\ k.recvmbox = <<>> => k.lastErr # "fatal")
    BY <1>1 DEF Local, Sees
  <1>3. k.pcb = "none" /\ m.op = "recv" => k.lastErr = "fatal"
    BY <1>1, <1>2 DEF Local, Made
  <1> QED
    BY <1>2, <1>3

\* A write tells the truth.
LEMMA ToldTrue ==
  ASSUME NetInv
  PROVE  WriteTold
  <1> SUFFICES ASSUME NEW t \in Threads, callers[t].pc = "waits", callers[t].op = "write",
                      conns[callers[t].conn].sem = 1
               PROVE  IF callers[t].err = "ok"
                      THEN callers[t].queued = (IF callers[t].dontblock
                        THEN callers[t].len ELSE callers[t].size)
                      ELSE conns[callers[t].conn].pcb # "none" => callers[t].queued = 0
    BY DEF WriteTold
  <1>1. conns[callers[t].conn].sem # 0 /\ callers[t].pc # "idle"
    OBVIOUS
  <1>2. Local(conns[callers[t].conn], callers[t], FALSE)
    BY <1>1, QuietIs
  <1> QED
    BY <1>2 DEF Local, Tells

\* The pieces before the end.
LEMMA RunCounts ==
  ASSUME NEW q \in Seq(Nat), NEW b \in Nat, NEW n \in 0 .. Len(q), Run(q, b, n)
  PROVE  Cardinality({i \in 1 .. Len(q) : q[i] # 0}) = n
  <1>1. {i \in 1 .. Len(q) : q[i] # 0} = 1 .. n
    BY DEF Run
  <1>2. Cardinality(1 .. n) = n
    BY FS_Interval
  <1> QED
    BY <1>1, <1>2

\* What PiecesInOrder calls coming, in the words of the local invariant.
LEMMA ComingIs ==
  ASSUME NetInv, NEW c \in Conns
  PROVE  LET m == Mine(conns, callers, c) IN
         /\ Coming(c).q = conns[c].recvmbox
         /\ Coming(c).taken = (IF Receives(m) THEN {m.got} ELSE {})
         /\ Coming(c).next = Base(conns[c], m) + 1
  <1> DEFINE k == conns[c]
             m == Mine(conns, callers, c)
             o == k.owner
             T == {u \in Threads : callers[u].conn = c /\ callers[u].op = "recv"
                                   /\ callers[u].pc \in {"taken", "waits"}}
             taken == {callers[t].got : t \in T}
  <1>1. /\ \A t \in Threads : callers[t].conn = c => t = o /\ callers[t] = m
        /\ m.pc # "idle" => o \in Threads /\ callers[o] = m /\ m.conn = c
    BY UserIs
  <1>2. IsNetconn(k) /\ k.read \in Nat
    BY OwnerIs DEF NetInv, IsNetconn
  <1> HIDE DEF m
  <1>3. taken = IF Receives(m) THEN {m.got} ELSE {}
    <2>1. T = IF Receives(m) THEN {o} ELSE {}
      BY <1>1 DEF Receives
    <2> HIDE DEF T
    <2>2. CASE Receives(m)
      <3>1. T = {o} /\ callers[o] = m
        BY <1>1, <2>1, <2>2 DEF Receives
      <3> QED
        BY <2>2, <3>1
    <2>3. CASE ~Receives(m)
      BY <2>1, <2>3
    <2> QED
      BY <2>2, <2>3
  <1> HIDE DEF taken
  <1>4. Cardinality({}) = 0 /\ Cardinality({m.got}) = 1
    BY FS_EmptySet, FS_Singleton
  <1>5. taken \ {0} = IF HasPiece(m) THEN {m.got} ELSE {}
    BY <1>3 DEF HasPiece
  <1>6. Cardinality(taken \ {0}) = Has(m)
    BY <1>4, <1>5 DEF Has
  <1>7. Coming(c) = [taken |-> taken, q |-> k.recvmbox,
          next |-> k.read + Cardinality(taken \ {0}) + 1]
    BY DEF Coming, taken
  <1> QED
    BY <1>3, <1>6, <1>7 DEF Base, m

\* The pieces come in order.
LEMMA InOrder ==
  ASSUME NetInv
  PROVE  PiecesInOrder
  <1> SUFFICES ASSUME NEW c \in Conns, conns[c].type = "TCP"
               PROVE  LET w == Coming(c) IN
        /\ \A x \in w.taken : x # 0 => x = conns[c].read + 1
        /\ \A i \in 1..Len(w.q) : \/ w.q[i] = w.next + i - 1
                                  \/ \A j \in i..Len(w.q) : w.q[j] = 0
        /\ conns[c].refused # 0 => conns[c].refused = w.next + Len(w.q)
    BY DEF PiecesInOrder
  <1> DEFINE k == conns[c]
             m == Mine(conns, callers, c)
             p == IsPosted(conns, callers, tcpipMbox, c)
             w == Coming(c)
             b == Base(k, m)
  <1>1. Local(k, m, p)
    BY OwnerIs DEF NetInv
  <1>2. PICK n \in Nat : InLine(k, m, p, n)
    BY <1>1 DEF Local, Pieces
  <1>3. /\ w.q = k.recvmbox /\ w.taken = (IF Receives(m) THEN {m.got} ELSE {}) /\ w.next = b + 1
    BY ComingIs
  <1>4. k.recvmbox \in Seq(Nat) /\ k.read \in Nat
    BY <1>1 DEF Local, IsNetconn
  <1>5. b \in Nat
    BY <1>4 DEF Base, Has
  <1>6. \A x \in w.taken : x # 0 => x = k.read + 1
    BY <1>2, <1>3 DEF InLine, HasPiece
  <1>7. n \in 0 .. Len(k.recvmbox)
          /\ \A i \in 1 .. Len(k.recvmbox) : k.recvmbox[i] = IF i <= n THEN b + i ELSE 0
    BY <1>2 DEF InLine, Run
  <1>8. k.refused # 0 => k.refused = b + 1 + Len(k.recvmbox)
    <2>1. k.refused # 0 => k.pcb = "open"
      BY <1>1 DEF Local, Shape
    <2>2. k.refused # 0 => k.refused = b + n + 1 /\ n = Len(k.recvmbox)
      BY <1>2, <2>1 DEF InLine
    <2> DEFINE l == Len(k.recvmbox)
    <2>3. l \in Nat /\ n \in Nat /\ b \in Nat
      BY <1>2, <1>4, <1>5
    <2>4. ASSUME k.refused # 0
          PROVE  k.refused = b + 1 + l
      <3>1. k.refused = b + n + 1 /\ n = l
        BY <2>2, <2>4
      <3> HIDE DEF b, k, l
      <3> QED
        BY <2>3, <3>1
    <2> QED
      BY <2>4
  <1> HIDE DEF b, w
  <1>9. ASSUME NEW i \in 1 .. Len(w.q)
        PROVE  w.q[i] = w.next + i - 1 \/ \A j \in i .. Len(w.q) : w.q[j] = 0
    <2> DEFINE q == k.recvmbox
    <2>1. i \in Nat /\ Len(q) \in Nat /\ w.q = q /\ i \in 1 .. Len(q) /\ w.next = b + 1
            /\ n \in Nat
      BY <1>3, <1>4, <1>9
    <2>2. CASE i <= n
      <3>1. q[i] = b + i
        BY <1>7, <2>1, <2>2
      <3> QED
        BY <1>5, <2>1, <3>1
    <2>3. CASE ~(i <= n)
      <3>1. \A j \in i .. Len(q) : j \in 1 .. Len(q) /\ ~(j <= n)
        BY <2>1, <2>3
      <3>2. \A j \in i .. Len(q) : q[j] = 0
        BY <1>7, <3>1
      <3> QED
        BY <2>1, <3>2
    <2> QED
      BY <2>2, <2>3
  <1> QED
    BY <1>3, <1>6, <1>8, <1>9 DEF w

\* The window is kept.
LEMMA WindowIs ==
  ASSUME NetInv
  PROVE  WindowKept
  <1> SUFFICES ASSUME NEW c \in Conns, conns[c].pcb = "open"
               PROVE  LET w == Coming(c)
            k == conns[c]
            held == {t \in Threads : callers[t].conn = c /\ callers[t].op = "recv"
                        /\ callers[t].got # 0
                        /\ (callers[t].pc = "taken" \/ Holds(tcpipMbox, t))}
        IN  k.unread = Cardinality({i \in 1..Len(w.q) : w.q[i] # 0}) + Cardinality(held)
                         + (IF k.refused # 0 THEN 1 ELSE 0)
    BY DEF WindowKept
  <1> DEFINE k == conns[c]
             m == Mine(conns, callers, c)
             p == IsPosted(conns, callers, tcpipMbox, c)
             o == k.owner
             q == k.recvmbox
             held == {t \in Threads : callers[t].conn = c /\ callers[t].op = "recv"
                        /\ callers[t].got # 0
                        /\ (callers[t].pc = "taken" \/ Holds(tcpipMbox, t))}
  <1>1. Local(k, m, p)
    BY OwnerIs DEF NetInv
  <1>2. k.type = "TCP" /\ q \in Seq(Nat) /\ k.read \in Nat /\ k.unread \in Int
    BY <1>1 DEF Local, Shape, IsNetconn
  <1>3. PICK n \in Nat : InLine(k, m, p, n)
    BY <1>1, <1>2 DEF Local, Pieces
  <1>4. /\ \A t \in Threads : callers[t].conn = c => t = o /\ callers[t] = m
        /\ m.pc # "idle" => o \in Threads /\ callers[o] = m /\ m.conn = c
        /\ p <=> (m.pc = "waits" /\ Holds(tcpipMbox, o))
        /\ \A t \in Threads : Holds(tcpipMbox, t) => callers[t].pc = "waits"
    BY UserIs DEF IsPosted, Waits, NetInv, Sane, Mailed
  <1> HIDE DEF m, p
  <1>5. held = IF HasPiece(m) /\ (m.pc = "taken" \/ p) THEN {o} ELSE {}
    BY <1>4 DEF HasPiece, Receives
  <1>6. Cardinality(held) = HasUntold(m, p)
    <2>1. Cardinality({}) = 0 /\ Cardinality({o}) = 1
      BY FS_EmptySet, FS_Singleton
    <2> HIDE DEF held
    <2> QED
      BY <1>5, <2>1 DEF HasUntold
  <1>7. Cardinality({i \in 1 .. Len(q) : q[i] # 0}) = n
    <2>1. Base(k, m) \in Nat
      BY <1>2 DEF Base, Has
    <2>2. n \in 0 .. Len(q) /\ Run(q, Base(k, m), n)
      BY <1>3 DEF InLine
    <2> QED
      BY <1>2, <2>1, <2>2, RunCounts
  <1>8. k.unread = n + HasUntold(m, p) + (IF k.refused # 0 THEN 1 ELSE 0)
    BY <1>3 DEF InLine, HasRefused
  <1>9. Coming(c).q = q
    BY ComingIs
  <1> HIDE DEF held
  <1>10. k.unread = Cardinality({i \in 1 .. Len(Coming(c).q) : Coming(c).q[i] # 0}) + Cardinality(held)
                    + (IF k.refused # 0 THEN 1 ELSE 0)
    BY <1>6, <1>7, <1>8, <1>9
  <1> QED
    BY <1>10 DEF held

-----------------------------------------------------------------------------
(* The result *)

\* The callers of the stack are woken once and by their own answers, the callbacks find
\* what they assert, no thread waits at the mailbox of a failed connection, the pieces
\* come in order and the window is kept, and a write tells the truth: whatever the
\* threads, the stack and the peers do (api_lib.c, api_msg.c, tcpip.c).
THEOREM CallsAreSane == NetconnSpec => []CallsSane
  <1>1. NetconnInit => NetInv
    BY NetInit
  <1>2. NetInv /\ [NetconnNext]_netconnVars => NetInv'
    BY NetNext
  <1>3. NetInv => CallsSane
    BY WokenIs, AssertionsAre, NeverDead, InOrder, WindowIs, ToldTrue DEF CallsSane
  <1> QED
    BY <1>1, <1>2, <1>3, PTL DEF NetconnSpec

=============================================================================
